---- MODULE Spec2Model ----
(***************************************************************************)
(* The cross-context Playwright bridge of @vscode/test-web.                *)
(*                                                                         *)
(*   worker side  src/src/test-helpers/playwright.ts                       *)
(*   page relay   src/unnamed/part_001  (browser/playwright.ts)            *)
(*   host side    src/unnamed/part_006  (server/playwright.ts)             *)
(*                                                                         *)
(* Spec      the worker-side module, the BroadcastChannel and the page     *)
(*           relay; the exposed dispatcher is an opaque async function.    *)
(* SpecLive  Spec with the fairness of the worker's timers.                *)
(* SpecHost  the host dispatcher and its HandleRegistry.                   *)
(* SpecTests the mocha test cases of one worker: module loads, the root    *)
(*           before-each hook, the auto-clear toggle, test bodies calling  *)
(*           the host dispatcher.                                          *)
(* SpecProxy the proxies test code holds: property reads, calls that post  *)
(*           Requests, the host dispatcher answering them in order, and    *)
(*           the results unwrapped into handle proxies.                    *)
(***************************************************************************)
EXTENDS Integers, Sequences, FiniteSets, Bags, TLC

VARIABLES
    requestId,   \* playwright.ts:69        let requestId = 0
    calls,       \* one record per sendPlaywrightMessage call (promise, timer, listener)
    toHost,      \* bag: messages on the channel not yet seen by the page relay
    toWorker,    \* bag: messages on the channel not yet seen by the worker
    relay,       \* bag: Requests whose __playwrightBridge(message) call has not settled
    received,    \* history: id -> number of Requests the relay has taken
    responded,   \* history: id -> number of Responses the relay has posted
    injected,    \* number of messages other same-origin contexts have posted
    handles,     \* HandleRegistry.handles   (Map<string, any>)
    nextId,      \* HandleRegistry.nextId
    issued,      \* history: the (id, value) pairs of the register() calls, in order
    running,     \* bag: dispatches suspended at `await fn.apply(targetObj, args)`
    last,        \* history: the dispatch that returned most recently
    nDispatch,   \* number of __playwrightBridge calls made so far
    nDelete,     \* number of registry.delete calls made so far
    modules,     \* playwright.ts:289  __autoClearRegistry of each loaded module instance
    hookInstalled, \* playwright.ts:412  mocha.__playwrightRegistryHookInstalled
    hooks,       \* root suite's beforeEach hooks: the module instance each closes over
    phase,       \* test runner: "idle", "hooks", "clearing", "body", "aborted"
    hookIdx,     \* the root before-each hook the runner is at
    clearsPosted, \* clear Requests the hooks have posted at this test case's start
    tests,       \* number of test cases started
    bodyStartAt, \* history: nDispatch when the current test body was entered
    lastToggle,  \* history: the last toggle called: "none", "disable", "enable"
    held,        \* the handle proxies the test code has been given as results
    attempts,    \* history: the proxy invocations made, with what each posted
    lastRead,    \* what the last property chain read without a call evaluated to
    gotResult,   \* the dispatcher Result the worker received last
    apiRequestId, \* playwright-api.ts:16   let requestId = 0 of the second module
    apiCalls     \* one record per sendPlaywrightMessage call of the second module

workerVars == <<requestId, calls, toHost, toWorker, relay, received, responded, injected>>
hostVars   == <<handles, nextId, issued, running, last, nDispatch, nDelete>>
testVars   == <<modules, hookInstalled, hooks, phase, hookIdx, clearsPosted, tests,
                bodyStartAt, lastToggle>>
proxyVars  == <<held, attempts, lastRead, gotResult>>
apiVars    == <<apiRequestId, apiCalls>>
vars       == <<requestId, calls, toHost, toWorker, relay, received, responded, injected,
                handles, nextId, issued, running, last, nDispatch, nDelete,
                modules, hookInstalled, hooks, phase, hookIdx, clearsPosted, tests,
                bodyStartAt, lastToggle, held, attempts, lastRead, gotResult,
                apiRequestId, apiCalls>>

----------------------------------------------------------------------------
(* Bounds of the model.                                                    *)

\* sendPlaywrightMessage calls made by the worker
MaxCalls == 2
\* messages posted on the channel by contexts other than the worker and the relay
MaxInject == 1
\* __playwrightBridge calls the page makes in SpecHost
MaxDispatch == 3
\* calls the test code makes on proxies in SpecProxy
MaxAttempts == 3
\* sendPlaywrightMessage calls made through the second worker-side module
MaxApiCalls == 2
\* dispatches suspended at their await at the same time in SpecHost
MaxRunning == 2
\* registry.delete calls in SpecHost
MaxDelete == 1
\* evaluations of the worker-side module in one worker in SpecTests
MaxLoads == 2
\* test cases started in SpecTests
MaxTests == 2

----------------------------------------------------------------------------
(* Values.  A JavaScript string is a TLA+ string; `undefined` is Undefined. *)

Undefined == "<undefined>"

\* playwright.ts:111
TimeoutMsg == "Playwright bridge timeout - is the bridge initialized?"

\* The message of the DataCloneError BroadcastChannel.postMessage raises.
CloneErrMsg == "DataCloneError: value could not be cloned"

\* s contains t as a substring (String.prototype.includes)
Contains(s, t) ==
    \E i \in 1..(Len(s) - Len(t) + 1) : SubSeq(s, i, i + Len(t) - 1) = t

\* String.prototype.startsWith
StartsWith(s, t) == Len(s) >= Len(t) /\ SubSeq(s, 1, Len(t)) = t

OkResult(d)   == [success |-> TRUE,  data |-> d,         error |-> Undefined]
FailResult(e) == [success |-> FALSE, data |-> Undefined, error |-> e]
NoResult      == [success |-> FALSE, data |-> Undefined, error |-> Undefined]

----------------------------------------------------------------------------
(* Worker-side argument values.  kind is one of                            *)
(*   "prim"   a structured-cloneable value that is no function or array    *)
(*   "func"   a function; src is what Function.prototype.toString gives    *)
(*   "array"  an array of elems                                            *)
(*   "proxy"  an object that is no function and no array and that the      *)
(*            structured clone algorithm refuses (a handle Proxy, an       *)
(*            object with a function-valued property)                      *)
(*   "sfunc"  a SerializedFunction { __function: src }                     *)

PrimV(s)  == [kind |-> "prim",  src |-> s,  elems |-> <<>>]
FuncV(s)  == [kind |-> "func",  src |-> s,  elems |-> <<>>]
SFuncV(s) == [kind |-> "sfunc", src |-> s,  elems |-> <<>>]
ArrayV(e) == [kind |-> "array", src |-> "", elems |-> e]
ProxyV    == [kind |-> "proxy", src |-> "", elems |-> <<>>]

RECURSIVE serializeArgs(_)
\* playwright.ts:78-91
serializeArgs(args) ==
    [i \in 1..Len(args) |->
        IF args[i].kind = "func" THEN SFuncV(args[i].src)
        ELSE IF args[i].kind = "array" THEN ArrayV(serializeArgs(args[i].elems))
        ELSE args[i]]

RECURSIVE Cloneable(_)
\* Whether BroadcastChannel.postMessage can structured-clone the argument list.
Cloneable(args) ==
    \A i \in 1..Len(args) :
        /\ args[i].kind \notin {"func", "proxy"}
        /\ args[i].kind = "array" => Cloneable(args[i].elems)

----------------------------------------------------------------------------
(* Messages on the 'playwright-bridge' BroadcastChannel.                   *)
(*   req      data.__playwrightRequest === true                            *)
(*   resp     '__playwrightResponse' in data                               *)
(*   message  the PlaywrightMessage, or AbsentMessage when data has none   *)

AbsentMessage == [target |-> Undefined, method |-> Undefined, args |-> <<>>]

Request(i, msg) ==
    [req |-> TRUE, resp |-> FALSE, id |-> i, message |-> msg, result |-> NoResult]
Response(i, res) ==
    [req |-> FALSE, resp |-> TRUE, id |-> i, message |-> AbsentMessage, result |-> res]

\* playwright.ts:96-98
isPlaywrightResponse(data) == data.resp

\* part_001:19-26
isPlaywrightRequest(data) == data.req /\ data.message # AbsentMessage

\* What the test code calls sendPlaywrightMessage with.
CallInputs ==
    { [target |-> "page",     method |-> "evaluate", args |-> <<FuncV("() => 1"), ArrayV(<<FuncV("x => x")>>)>>],
      [target |-> "handle_1", method |-> "evaluate", args |-> <<PrimV("a"), ArrayV(<<ProxyV>>)>>] }

\* What the exposed __playwrightBridge function may do with a message: resolve
\* with a PlaywrightResult or reject (not exposed, page closed).
BridgeErrors == {TimeoutMsg}
DispatcherOutcomes ==
    { [throws |-> FALSE, result |-> OkResult("data"), error |-> Undefined] }
    \cup { [throws |-> FALSE, result |-> FailResult(e), error |-> Undefined] : e \in BridgeErrors }
    \cup { [throws |-> TRUE, result |-> NoResult, error |-> "boom"] }

\* What another same-origin context may post on the channel.
InjectMessages ==
    { Response(i, OkResult("forged")) : i \in 1..MaxCalls }
    \cup { Request(1, [target |-> "page", method |-> "title", args |-> <<>>]) }
    \* a Request that also has the key __playwrightResponse, with whatever
    \* value: { __playwrightRequest: true, __playwrightResponse: false, id: 1,
    \* message, result }
    \cup { [Request(1, [target |-> "page", method |-> "title", args |-> <<>>])
              EXCEPT !.resp = TRUE, !.result = OkResult("forged")] }

----------------------------------------------------------------------------
(* The worker-side module: sendPlaywrightMessage and checkResult.          *)
(*                                                                         *)
(* A call record holds the promise of one sendPlaywrightMessage call and   *)
(* the closure state of its executor:                                      *)
(*   id        the id the executor took from the counter                   *)
(*   state     the promise: "pending", "resolved" (result) or "rejected"   *)
(*             (error)                                                     *)
(*   by        what settled it: "response", "timeout" or "post"            *)
(*   timer     the setTimeout: "armed", "cleared" or "fired"               *)
(*   listener  whether `handler` is registered on the channel              *)
(*   posted    whether channel.postMessage(request) went through           *)
(*   settles   history: how many times resolve or reject has been invoked  *)

\* Mutant of NextRequestId: the counter is read but not advanced past 1.
NextRequestId_stuck(counter) == IF counter = 0 THEN 1 ELSE counter

\* playwright.ts:105   const id = ++requestId
NextRequestId(counter) == counter + 1

\* Mutant of HandlerMatches: the handler forgets to compare the id.
HandlerMatches_anyId(data, id) == isPlaywrightResponse(data)

\* playwright.ts:115   the guard of `handler`
HandlerMatches(data, id) == isPlaywrightResponse(data) /\ data.id = id

\* The promise's resolve function: the first settlement wins.
Resolve(c, res) ==
    [c EXCEPT !.state   = IF c.state = "pending" THEN "resolved" ELSE @,
              !.result  = IF c.state = "pending" THEN res ELSE @,
              !.by      = IF c.state = "pending" THEN "response" ELSE @,
              !.settles = @ + 1]

\* The promise's reject function.
Reject(c, why, msg) ==
    [c EXCEPT !.state   = IF c.state = "pending" THEN "rejected" ELSE @,
              !.error   = IF c.state = "pending" THEN msg ELSE @,
              !.by      = IF c.state = "pending" THEN why ELSE @,
              !.settles = @ + 1]

\* Mutant of ClearTimeout: the handler forgets clearTimeout.
ClearTimeout_forgotten(c) == c

\* playwright.ts:116   clearTimeout(timeout)
ClearTimeout(c) == [c EXCEPT !.timer = IF @ = "armed" THEN "cleared" ELSE @]

\* playwright.ts:114-120   `handler` run on one message event
OnMessage(c, data) ==
    IF HandlerMatches(data, c.id)
    THEN [Resolve(ClearTimeout(c), data.result) EXCEPT !.listener = FALSE]
    ELSE c

\* Mutant of OnTimeout: the callback leaves the handler registered (as the
\* older module playwright-api.ts:57-59 does).
OnTimeout_keepsListener(c) ==
    [Reject(c, "timeout", TimeoutMsg) EXCEPT !.timer = "fired"]

\* Mutant of OnTimeout: the callback unregisters the handler and forgets to
\* reject.
OnTimeout_noReject(c) == [c EXCEPT !.timer = "fired", !.listener = FALSE]

\* playwright.ts:109-112   the setTimeout callback
OnTimeout(c) ==
    [Reject(c, "timeout", TimeoutMsg) EXCEPT !.timer = "fired", !.listener = FALSE]

\* playwright.ts:104-134   the executor up to channel.postMessage
NewCall(id) ==
    [id |-> id, state |-> "pending", result |-> NoResult, error |-> Undefined,
     by |-> "none", timer |-> "armed", listener |-> TRUE, posted |-> FALSE,
     settles |-> 0]

\* Mutant of checkResult: the carried error is thrown without the prefix.
checkResult_bareError(result) ==
    IF ~result.success
    THEN [threw |-> TRUE,  value |-> result.error]
    ELSE [threw |-> FALSE, value |-> result.data]

\* playwright.ts:141-146   checkResult: what the caller of a proxy method gets
\* from a resolved sendPlaywrightMessage promise
checkResult(result) ==
    IF ~result.success
    THEN [threw |-> TRUE,  value |-> "Playwright operation failed: " \o result.error]
    ELSE [threw |-> FALSE, value |-> result.data]

\* What `await sendPlaywrightMessage(...)` followed by checkResult gives the
\* caller (playwright.ts:188-191, 221-224).
CallOutcome(c) ==
    IF c.state = "pending" THEN [done |-> FALSE, threw |-> FALSE, value |-> Undefined]
    ELSE IF c.state = "rejected" THEN [done |-> TRUE, threw |-> TRUE, value |-> c.error]
    ELSE [done |-> TRUE] @@ checkResult(c.result)

\* playwright.ts:103-136   sendPlaywrightMessage(target, method, args)
SendPlaywrightMessage(inp) ==
    /\ requestId < MaxCalls
    /\ LET id      == NextRequestId(requestId)
           args    == serializeArgs(inp.args)
           request == Request(id, [target |-> inp.target, method |-> inp.method, args |-> args])
       IN /\ requestId' = id
          /\ IF Cloneable(args)
             THEN /\ calls' = Append(calls, [NewCall(id) EXCEPT !.posted = TRUE])
                  /\ toHost' = toHost (+) SetToBag({request})
             ELSE \* postMessage throws inside the executor: the promise is rejected
                  /\ calls' = Append(calls, Reject(NewCall(id), "post", CloneErrMsg))
                  /\ toHost' = toHost
    /\ UNCHANGED <<toWorker, relay, received, responded, injected>>
    /\ UNCHANGED hostVars
    /\ UNCHANGED testVars
    /\ UNCHANGED apiVars
    /\ UNCHANGED proxyVars

\* The 30 s timer of call i fires.
TimerFire(i) ==
    /\ i \in 1..Len(calls)
    /\ calls[i].timer = "armed"
    /\ calls' = [calls EXCEPT ![i] = OnTimeout(calls[i])]
    /\ UNCHANGED <<requestId, toHost, toWorker, relay, received, responded, injected>>
    /\ UNCHANGED hostVars
    /\ UNCHANGED testVars
    /\ UNCHANGED apiVars
    /\ UNCHANGED proxyVars

\* The worker's channel dispatches one message event to every registered handler.
WorkerReceive(data) ==
    /\ BagIn(data, toWorker)
    /\ toWorker' = toWorker (-) SetToBag({data})
    /\ calls' = [i \in 1..Len(calls) |->
                    IF calls[i].listener THEN OnMessage(calls[i], data) ELSE calls[i]]
    /\ UNCHANGED <<requestId, toHost, relay, received, responded, injected>>
    /\ UNCHANGED hostVars
    /\ UNCHANGED testVars
    /\ UNCHANGED apiVars
    /\ UNCHANGED proxyVars

----------------------------------------------------------------------------
(* The second worker-side module, src/test-helpers/playwright-api.ts,      *)
(* loaded in the same worker: its own request counter and its own channel  *)
(* object on 'playwright-bridge'.                                          *)

\* The calls made through the second module.
ApiInputs == { [target |-> "page", method |-> "title", args |-> <<>>] }

\* playwright-api.ts:62   the guard of `handler`: a truthy __playwrightResponse
\* (every Response the relay posts carries true) and the id of this call
ApiHandlerMatches(data, id) == data.resp /\ data.id = id

\* playwright-api.ts:61-67   `handler` run on one message event
ApiOnMessage(c, data) ==
    IF ApiHandlerMatches(data, c.id)
    THEN [Resolve(ClearTimeout(c), data.result) EXCEPT !.listener = FALSE]
    ELSE c

\* playwright-api.ts:57-59   the setTimeout callback: the handler stays
ApiOnTimeout(c) == [Reject(c, "timeout", TimeoutMsg) EXCEPT !.timer = "fired"]

\* playwright-api.ts:54-82   sendPlaywrightMessage(target, method, args)
ApiSendPlaywrightMessage(inp) ==
    /\ apiRequestId < MaxApiCalls
    /\ LET id      == apiRequestId + 1
           args    == serializeArgs(inp.args)
           request == Request(id, [target |-> inp.target, method |-> inp.method, args |-> args])
       IN /\ apiRequestId' = id
          /\ IF Cloneable(args)
             THEN /\ apiCalls' = Append(apiCalls, [NewCall(id) EXCEPT !.posted = TRUE])
                  /\ toHost' = toHost (+) SetToBag({request})
             ELSE /\ apiCalls' = Append(apiCalls, Reject(NewCall(id), "post", CloneErrMsg))
                  /\ toHost' = toHost
    /\ UNCHANGED <<requestId, calls, toWorker, relay, received, responded, injected>>
    /\ UNCHANGED hostVars
    /\ UNCHANGED testVars
    /\ UNCHANGED proxyVars

\* The 30 s timer of call i of the second module fires.
ApiTimerFire(i) ==
    /\ i \in 1..Len(apiCalls)
    /\ apiCalls[i].timer = "armed"
    /\ apiCalls' = [apiCalls EXCEPT ![i] = ApiOnTimeout(apiCalls[i])]
    /\ UNCHANGED apiRequestId
    /\ UNCHANGED workerVars
    /\ UNCHANGED hostVars
    /\ UNCHANGED testVars
    /\ UNCHANGED proxyVars

\* A message posted by the page reaches the worker: the channel objects of
\* both modules dispatch it to every handler registered on them.
ChannelDeliver(data) ==
    /\ BagIn(data, toWorker)
    /\ toWorker' = toWorker (-) SetToBag({data})
    /\ calls' = [i \in 1..Len(calls) |->
                    IF calls[i].listener THEN OnMessage(calls[i], data) ELSE calls[i]]
    /\ apiCalls' = [i \in 1..Len(apiCalls) |->
                    IF apiCalls[i].listener THEN ApiOnMessage(apiCalls[i], data) ELSE apiCalls[i]]
    /\ UNCHANGED <<requestId, apiRequestId, toHost, relay, received, responded, injected>>
    /\ UNCHANGED hostVars
    /\ UNCHANGED testVars
    /\ UNCHANGED proxyVars

----------------------------------------------------------------------------
(* The page relay (browser/playwright.ts).                                 *)

\* The number of messages of bag B that carry id j.
CountWithId(B, j) ==
    BagCardinality([m \in {x \in BagToSet(B) : x.id = j} |-> CopiesIn(m, B)])

\* Mutant of RelayResponses: the catch block swallows the error.
RelayResponses_silentCatch(id, o) ==
    IF ~o.throws THEN SetToBag({Response(id, o.result)}) ELSE EmptyBag

\* part_001:36-55   the Responses the relay posts once __playwrightBridge(message)
\* has settled with outcome o
RelayResponses(id, o) ==
    IF ~o.throws
    THEN SetToBag({Response(id, o.result)})
    ELSE SetToBag({Response(id, FailResult(o.error))})

\* part_001:31-38   channel.onmessage up to the await
RelayReceive(data) ==
    /\ BagIn(data, toHost)
    /\ toHost' = toHost (-) SetToBag({data})
    /\ IF isPlaywrightRequest(data)
       THEN /\ relay' = relay (+) SetToBag({[id |-> data.id, message |-> data.message]})
            /\ received' = [received EXCEPT ![data.id] = @ + 1]
       ELSE UNCHANGED <<relay, received>>
    /\ UNCHANGED <<requestId, calls, toWorker, responded, injected>>
    /\ UNCHANGED hostVars
    /\ UNCHANGED testVars
    /\ UNCHANGED apiVars
    /\ UNCHANGED proxyVars

\* part_001:38-55   the exposed function settles and the relay answers
RelaySettle(r, o) ==
    /\ BagIn(r, relay)
    /\ relay' = relay (-) SetToBag({r})
    /\ toWorker' = toWorker (+) RelayResponses(r.id, o)
    /\ responded' = [j \in DOMAIN responded |->
                        responded[j] + CountWithId(RelayResponses(r.id, o), j)]
    /\ UNCHANGED <<requestId, calls, toHost, received, injected>>
    /\ UNCHANGED hostVars
    /\ UNCHANGED testVars
    /\ UNCHANGED apiVars
    /\ UNCHANGED proxyVars

\* Another context posts on the channel: every other channel object gets it.
Inject(data) ==
    /\ injected < MaxInject
    /\ injected' = injected + 1
    /\ toHost' = toHost (+) SetToBag({data})
    /\ toWorker' = toWorker (+) SetToBag({data})
    /\ UNCHANGED <<requestId, calls, relay, received, responded>>
    /\ UNCHANGED hostVars
    /\ UNCHANGED testVars
    /\ UNCHANGED apiVars
    /\ UNCHANGED proxyVars

----------------------------------------------------------------------------
(* Host values.  The host's object graph is a fixed heap of named nodes;   *)
(* a host value is the name of a node, so identity is the name.            *)
(*   type    "undefined", "null", "prim" (boolean, number, string, bigint, *)
(*           symbol), "builtin" (Error, Date, RegExp, URL), "buffer"       *)
(*           (Buffer, typed array), "function", "array", "object"          *)
(*   own     the own enumerable properties, <<key, node>> in Object.keys   *)
(*           order                                                         *)
(*   proto   the methods found on the prototype chain, <<name, node>>      *)
(*   elems   the elements of an array                                      *)
(*   ret     function: the node its invocation yields                      *)
(*   throws  function: the message it throws or rejects with, else ""      *)

Node(t, own, proto, elems, ret, throws) ==
    [type |-> t, own |-> own, proto |-> proto, elems |-> elems, ret |-> ret, throws |-> throws]
Leaf(t)        == Node(t, <<>>, <<>>, <<>>, "undef", "")
Obj(own, proto) == Node("object", own, proto, <<>>, "undef", "")
Arr(elems)     == Node("array", <<>>, <<>>, elems, "undef", "")
Fn(ret)        == Node("function", <<>>, <<>>, <<>>, ret, "")
FnThrows(msg)  == Node("function", <<>>, <<>>, <<>>, "undef", msg)

Heap ==
    [ undef    |-> Leaf("undefined"),
      null     |-> Leaf("null"),
      str      |-> Leaf("prim"),
      num      |-> Leaf("prim"),
      buf      |-> Leaf("buffer"),
      date     |-> Leaf("builtin"),
      \* the root context { ...fixtures, playwright }
      ctx      |-> Obj(<< <<"page", "page">>, <<"playwright", "pw">> >>, <<>>),
      pw       |-> Obj(<< <<"request", "pwreq">> >>, <<>>),
      pwreq    |-> Obj(<< <<"_impl", "chan">> >>, << <<"newContext", "f_req">> >>),
      page     |-> Obj(<< <<"_channel", "chan">>, <<"keyboard", "keyboard">> >>,
                       << <<"title", "f_str">>, <<"$", "f_el">>, <<"$$", "f_els">>,
                          <<"screenshot", "f_buf">>, <<"click", "f_throw">>,
                          <<"viewportSize", "f_plain">>, <<"bare", "f_fn">>,
                          <<"mixed", "f_mixed">>, <<"holder", "f_holder">>,
                          <<"nums", "f_nums">>, <<"nested", "f_nested">>,
                          <<"locator", "f_loc">>, <<"ring", "f_ring">> >>),
      keyboard |-> Obj(<< <<"_page", "page">> >>, << <<"press", "f_undef">> >>),
      chan     |-> Obj(<< <<"send", "f_undef">> >>, <<>>),
      \* element handles and a request context: class instances holding a channel
      el       |-> Obj(<< <<"_guid", "str">>, <<"_channel", "chan">> >>,
                       << <<"click", "f_undef">>, <<"textContent", "f_str">>,
                          <<"$", "f_el2">> >>),
      el2      |-> Obj(<< <<"_guid", "str">>, <<"_channel", "chan">> >>,
                       << <<"click", "f_undef">>, <<"textContent", "f_str">> >>),
      req      |-> Obj(<< <<"_channel", "chan">> >>, << <<"dispose", "f_undef">> >>),
      \* two plain objects of data that refer to each other
      ring     |-> Obj(<< <<"n", "num">>, <<"next", "ring2">> >>, <<>>),
      ring2    |-> Obj(<< <<"prev", "ring">>, <<"self", "ring2">> >>, <<>>),
      \* an instance of a library class whose own properties are plain data
      loc      |-> Obj(<< <<"_selector", "str">> >>, << <<"click", "f_undef">> >>),
      plain    |-> Obj(<< <<"width", "num">>, <<"height", "num">> >>, <<>>),
      els      |-> Arr(<<"el", "el2">>),
      mixed    |-> Arr(<<"el", "num", "f_undef">>),
      \* a plain object whose only function sits inside an array-valued property
      holder   |-> Obj(<< <<"name", "str">>, <<"items", "fns">> >>, <<>>),
      fns      |-> Arr(<<"f_undef">>),
      \* arrays of plain data, one of them holding an array and a Buffer
      nums     |-> Arr(<<"num", "str">>),
      nested   |-> Arr(<<"nums", "buf">>),
      f_undef  |-> Fn("undef"),
      f_str    |-> Fn("str"),
      f_el     |-> Fn("el"),
      f_el2    |-> Fn("el2"),
      f_els    |-> Fn("els"),
      f_req    |-> Fn("req"),
      f_buf    |-> Fn("buf"),
      f_plain  |-> Fn("plain"),
      f_fn     |-> Fn("f_undef"),
      f_mixed  |-> Fn("mixed"),
      f_holder |-> Fn("holder"),
      f_nums   |-> Fn("nums"),
      f_loc    |-> Fn("loc"),
      f_ring   |-> Fn("ring"),
      f_nested |-> Fn("nested"),
      f_throw  |-> FnThrows("Timeout 30000ms exceeded") ]

\* The index of `key` in a <<key, node>> list, 0 when absent.
IndexOf(pairs, key) ==
    IF \E i \in 1..Len(pairs) : pairs[i][1] = key
    THEN CHOOSE i \in 1..Len(pairs) : pairs[i][1] = key
    ELSE 0

\* `key in obj` for a node whose typeof is 'object'
HasProperty(v, key) ==
    IndexOf(Heap[v].own, key) > 0 \/ IndexOf(Heap[v].proto, key) > 0

\* obj[key]
GetProperty(v, key) ==
    IF IndexOf(Heap[v].own, key) > 0 THEN Heap[v].own[IndexOf(Heap[v].own, key)][2]
    ELSE IF IndexOf(Heap[v].proto, key) > 0 THEN Heap[v].proto[IndexOf(Heap[v].proto, key)][2]
    ELSE "undef"

\* JavaScript truthiness of a host value
Truthy(v) == Heap[v].type \notin {"undefined", "null"}

\* typeof v === 'object' && v  (null excluded by the truthiness test)
IsObjectLike(v) == Heap[v].type \in {"object", "array", "builtin", "buffer"}

\* String.prototype.split('.')
RECURSIVE SplitFrom(_, _, _)
SplitFrom(s, i, acc) ==
    IF i > Len(s) THEN <<acc>>
    ELSE IF SubSeq(s, i, i) = "." THEN <<acc>> \o SplitFrom(s, i + 1, "")
    ELSE SplitFrom(s, i + 1, acc \o SubSeq(s, i, i))
Split(s) == SplitFrom(s, 1, "")

RECURSIVE WalkPath(_, _, _)
WalkPath(current, parts, k) ==
    IF k > Len(parts) THEN current
    ELSE IF Truthy(current) /\ IsObjectLike(current) /\ HasProperty(current, parts[k])
         THEN WalkPath(GetProperty(current, parts[k]), parts, k + 1)
         ELSE "undef"

\* part_006:65-76
getNestedProperty(obj, path) == WalkPath(obj, Split(path), 1)

----------------------------------------------------------------------------
(* HandleRegistry (part_006:20-60).  A registry is the pair of its map     *)
(* `handles` (id -> node) and its counter `nextId`.                        *)

EmptyMap == [id \in {} |-> "undef"]

\* part_006:28   `handle_${n}`
HandleId(n) == "handle_" \o ToString(n)

\* Mutant of register: an object already in the map gets its old id back.
register_dedup(h, n, v) ==
    IF \E id \in DOMAIN h : h[id] = v
    THEN [id |-> CHOOSE id \in DOMAIN h : h[id] = v, handles |-> h, nextId |-> n]
    ELSE [id |-> HandleId(n), handles |-> (HandleId(n) :> v) @@ h, nextId |-> n + 1]

\* Mutant of register: the id is derived from the size of the map.
register_sizeBased(h, n, v) ==
    [id |-> HandleId(Cardinality(DOMAIN h) + 1),
     handles |-> (HandleId(Cardinality(DOMAIN h) + 1) :> v) @@ h, nextId |-> n + 1]

\* part_006:27-31   register(handle): the id returned and the registry after
register(h, n, v) ==
    [id |-> HandleId(n), handles |-> (HandleId(n) :> v) @@ h, nextId |-> n + 1]

\* part_006:36-38   get(id); Map.get gives undefined for a missing key
get(h, id) == IF id \in DOMAIN h THEN h[id] ELSE "undef"

\* part_006:43-45
has(h, id) == id \in DOMAIN h

\* part_006:50-52   delete(id): the registry after
delete(h, n, id) ==
    [handles |-> [k \in DOMAIN h \ {id} |-> h[k]], nextId |-> n]

\* Mutant of clear: the map is left as it is.
clear_keepsMap(h, n) == [handles |-> h, nextId |-> n]

\* Mutant of clear: the id counter is reset together with the map.
clear_resetsCounter(h, n) == [handles |-> EmptyMap, nextId |-> 1]

\* Mutant of clear: the id counter moves on when the map is emptied.
clear_bumpsCounter(h, n) == [handles |-> EmptyMap, nextId |-> n + 1]

\* part_006:57-59   clear(): the registry after
clear(h, n) == [handles |-> EmptyMap, nextId |-> n]

----------------------------------------------------------------------------
(* The classifier and the transforms (part_006:85-201).                    *)

RECURSIVE needsHandleIn(_, _), needsHandleKeys(_, _, _)
\* Mutant of needsHandleIn: a function needs a handle wherever it stands,
\* the top level included.
needsHandleIn_wrapsFunction(value, visited) ==
    LET t == Heap[value].type IN
    IF t = "function"
    THEN [r |-> "true", visited |-> visited, adds |-> 0]
    ELSE IF t \in {"undefined", "null", "prim", "builtin", "buffer"}
    THEN [r |-> "false", visited |-> visited, adds |-> 0]
    ELSE IF value \in visited
    THEN [r |-> "false", visited |-> visited, adds |-> 0]
    ELSE IF t = "array"
    THEN [r |-> "false", visited |-> visited \cup {value}, adds |-> 1]
    ELSE LET x == needsHandleKeys(value, 1, visited \cup {value}) IN
         [x EXCEPT !.adds = @ + 1]

\* Mutant of needsHandleIn: an object met again in the same walk is taken to
\* need a handle.
needsHandleIn_visitedNeedsHandle(value, visited) ==
    LET t == Heap[value].type IN
    IF t = "function"
    THEN [r |-> IF visited = {} THEN "throw" ELSE "true", visited |-> visited, adds |-> 0]
    ELSE IF t \in {"undefined", "null", "prim", "builtin", "buffer"}
    THEN [r |-> "false", visited |-> visited, adds |-> 0]
    ELSE IF value \in visited
    THEN [r |-> "true", visited |-> visited, adds |-> 0]
    ELSE IF t = "array"
    THEN [r |-> "false", visited |-> visited \cup {value}, adds |-> 1]
    ELSE LET x == needsHandleKeys(value, 1, visited \cup {value}) IN
         [x EXCEPT !.adds = @ + 1]

\* part_006:85-140 with the `visited` set threaded through: r is "true",
\* "false" or "throw", visited is the set after the call and adds the number
\* of visited.add calls made (part_006:119-120).
needsHandleIn(value, visited) ==
    LET t == Heap[value].type IN
    IF t = "function"
    THEN [r |-> IF visited = {} THEN "throw" ELSE "true", visited |-> visited, adds |-> 0]
    ELSE IF t \in {"undefined", "null", "prim", "builtin", "buffer"}
    THEN [r |-> "false", visited |-> visited, adds |-> 0]
    ELSE IF value \in visited
    THEN [r |-> "false", visited |-> visited, adds |-> 0]
    ELSE IF t = "array"
    THEN [r |-> "false", visited |-> visited \cup {value}, adds |-> 1]
    ELSE LET x == needsHandleKeys(value, 1, visited \cup {value}) IN
         [x EXCEPT !.adds = @ + 1]

\* part_006:130-135   the loop over Object.keys(value), from key k on
needsHandleKeys(value, k, visited) ==
    IF k > Len(Heap[value].own)
    THEN [r |-> "false", visited |-> visited, adds |-> 0]
    ELSE LET x == needsHandleIn(Heap[value].own[k][2], visited) IN
         IF x.r = "true" THEN x
         ELSE LET rest == needsHandleKeys(value, k + 1, x.visited) IN
              [rest EXCEPT !.adds = @ + x.adds]

\* part_006:85   needsHandle(value): "true", "false" or "throw"
needsHandle(value) == needsHandleIn(value, {}).r

NeedsHandleError == "Attempting to serialize unexpected value: function"

(* Serialized values, as they leave the host in Result.data and as they    *)
(* arrive in message.args.  kind is one of                                 *)
(*   "data"    a value sent as it is (src names the node)                  *)
(*   "base64"  a Buffer as base64 text (src names the node)                *)
(*   "href"    a HandleReference { __handleId: src }                       *)
(*   "sfunc"   a SerializedFunction { __function: src }                    *)
(*   "array"   an array of elems                                           *)
(* and, host-side only, what deserializeArgs hands to the method:          *)
(*   "live"    the host object src                                         *)
(*   "func"    the function evaluated from src                             *)
DataS(v)    == [kind |-> "data",   src |-> v,  elems |-> <<>>]
Base64S(v)  == [kind |-> "base64", src |-> v,  elems |-> <<>>]
HRefS(id)   == [kind |-> "href",   src |-> id, elems |-> <<>>]
SFuncS(src) == [kind |-> "sfunc",  src |-> src, elems |-> <<>>]
ArrayS(e)   == [kind |-> "array",  src |-> "", elems |-> e]
LiveS(v)    == [kind |-> "live",   src |-> v,  elems |-> <<>>]
FuncS(src)  == [kind |-> "func",   src |-> src, elems |-> <<>>]
NoData      == DataS("undef")

RECURSIVE serializeResult(_, _, _, _), serializeItems(_, _, _, _, _)
\* part_006:145-165   serializeResult(data, registry).  h, n, iss are the
\* registry and the register() history before; the result carries them after,
\* with threw = TRUE when needsHandle raised.
serializeResult(data, h, n, iss) ==
    IF Heap[data].type = "buffer"
    THEN [threw |-> FALSE, out |-> Base64S(data), handles |-> h, nextId |-> n, issued |-> iss]
    ELSE IF needsHandle(data) = "throw"
    THEN [threw |-> TRUE, out |-> NoData, handles |-> h, nextId |-> n, issued |-> iss]
    ELSE IF needsHandle(data) = "true"
    THEN LET reg == register(h, n, data) IN
         [threw |-> FALSE, out |-> HRefS(reg.id), handles |-> reg.handles,
          nextId |-> reg.nextId, issued |-> Append(iss, [id |-> reg.id, value |-> data])]
    ELSE IF Heap[data].type = "array"
    THEN serializeItems(Heap[data].elems, 1, <<>>, [handles |-> h, nextId |-> n, issued |-> iss], FALSE)
    ELSE [threw |-> FALSE, out |-> DataS(data), handles |-> h, nextId |-> n, issued |-> iss]

\* part_006:160   data.map(item => serializeResult(item, registry)), from item k on
serializeItems(items, k, acc, reg, threw) ==
    IF threw
    THEN [threw |-> TRUE, out |-> NoData, handles |-> reg.handles, nextId |-> reg.nextId, issued |-> reg.issued]
    ELSE IF k > Len(items)
    THEN [threw |-> FALSE, out |-> ArrayS(acc), handles |-> reg.handles, nextId |-> reg.nextId, issued |-> reg.issued]
    ELSE LET x == serializeResult(items[k], reg.handles, reg.nextId, reg.issued) IN
         serializeItems(items, k + 1, Append(acc, x.out),
                        [handles |-> x.handles, nextId |-> x.nextId, issued |-> x.issued], x.threw)

\* Sources that `new Function("return (" + src + ")")` rejects with a
\* SyntaxError: the toString() of a method shorthand and of a native function.
BadSources == {"foo() {}", "function () { [native code] }"}
EvalError == "Unexpected token '{'"

RECURSIVE deserializeArgs(_, _)
\* part_006:184-201   deserializeArgs(args, registry): the arguments handed to
\* the method, threw = TRUE when evaluating a function source raised, and the
\* number of sources evaluated
deserializeArgs(args, h) ==
    IF args = <<>> THEN [threw |-> FALSE, out |-> <<>>, evaluated |-> 0]
    ELSE LET a == Head(args)
             one == IF a.kind = "href"
                       THEN [threw |-> FALSE, out |-> LiveS(get(h, a.src)), evaluated |-> 0]
                    ELSE IF a.kind = "sfunc"
                       THEN [threw |-> a.src \in BadSources, out |-> FuncS(a.src), evaluated |-> 1]
                    ELSE IF a.kind = "array"
                       THEN LET sub == deserializeArgs(a.elems, h) IN
                            [threw |-> sub.threw, out |-> ArrayS(sub.out), evaluated |-> sub.evaluated]
                    ELSE [threw |-> FALSE, out |-> a, evaluated |-> 0]
         IN IF one.threw THEN [threw |-> TRUE, out |-> <<>>, evaluated |-> one.evaluated]
            ELSE LET rest == deserializeArgs(Tail(args), h) IN
                 [threw |-> rest.threw,
                  out |-> IF rest.threw THEN <<>> ELSE <<one.out>> \o rest.out,
                  evaluated |-> one.evaluated + rest.evaluated]

----------------------------------------------------------------------------
(* The dispatcher: the function setupPlaywrightBridge exposes as           *)
(* __playwrightBridge (part_006:215-279).                                  *)

NumS(k)  == [kind |-> "number",  src |-> ToString(k), elems |-> <<>>]
TrueS    == [kind |-> "boolean", src |-> "true",      elems |-> <<>>]

HostOk(d)   == [success |-> TRUE,  data |-> d,      error |-> Undefined]
\* Mutant of HostFail: the failure Result carries no error string.
HostFail_noError(e) == [success |-> FALSE, data |-> NoData, error |-> Undefined]
HostFail(e) == [success |-> FALSE, data |-> NoData, error |-> e]

\* !x for a string-valued field of the message
Falsy(x) == x = "" \/ x = Undefined

\* part_006:209   const context = { ...fixtures, playwright }
Context == "ctx"

RegistryTarget == "__registry"

\* part_006:255-259   the failure for a target that did not resolve
NotFoundHint ==
    " (Possibly cleared between tests. Disable auto clear via disableAutoClearRegistry() if you need to retain handles.)"
NotFoundError(target) ==
    "Target '" \o target \o "' not found"
        \o (IF StartsWith(target, "handle_") THEN NotFoundHint ELSE "")

\* Mutant of NotFunctionError: the target is left out of the message.
NotFunctionError_noTarget(method, target) ==
    "Method '" \o method \o "' is not a function"

\* part_006:266
NotFunctionError(method, target) ==
    "Method '" \o method \o "' is not a function on target '" \o target \o "'"

\* part_006:244-252   the target object of a message
ResolveTarget(h, target) ==
    IF has(h, target) THEN get(h, target) ELSE getNestedProperty(Context, target)

\* part_006:216-270   the dispatcher from its entry to `await fn.apply(...)`:
\* either it returns a Result at once (returned = TRUE) or it has invoked fn
\* on targetObj.  handles and nextId are the registry after.
DispatchSync(msg, h, n) ==
    LET none == [returned |-> TRUE, result |-> HostFail(""), handles |-> h, nextId |-> n,
                 evaluated |-> 0, targetObj |-> "undef", fn |-> "undef", args |-> <<>>]
    IN
    IF msg = AbsentMessage
    THEN [none EXCEPT !.result = HostFail("Invalid message format")]
    ELSE IF msg.target = RegistryTarget
    THEN IF msg.method = "size"
         THEN [none EXCEPT !.result = HostOk(NumS(Cardinality(DOMAIN h)))]
         ELSE IF msg.method = "clear"
         THEN [none EXCEPT !.result = HostOk(TrueS), !.handles = clear(h, n).handles,
                           !.nextId = clear(h, n).nextId]
         ELSE [none EXCEPT !.result =
                  HostFail("Unknown registry method '" \o msg.method \o "'")]
    ELSE IF Falsy(msg.target) \/ Falsy(msg.method)
    THEN [none EXCEPT !.result = HostFail("Message must include target and method")]
    ELSE LET des       == deserializeArgs(msg.args, h)
             targetObj == ResolveTarget(h, msg.target)
             fn        == GetProperty(targetObj, msg.method)
         IN
         IF des.threw
         THEN [none EXCEPT !.result = HostFail(EvalError), !.evaluated = des.evaluated]
         ELSE IF ~Truthy(targetObj)
         THEN [none EXCEPT !.result = HostFail(NotFoundError(msg.target)),
                           !.evaluated = des.evaluated]
         ELSE IF Heap[fn].type # "function"
         THEN [none EXCEPT !.result = HostFail(NotFunctionError(msg.method, msg.target)),
                           !.evaluated = des.evaluated]
         ELSE [none EXCEPT !.returned = FALSE, !.evaluated = des.evaluated,
                           !.targetObj = targetObj, !.fn = fn, !.args = des.out]

\* The record kept of a dispatch that has returned.
\*   valid      FALSE until a dispatch has returned
\*   msg        its message
\*   result     the PlaywrightResult it returned
\*   invoked    whether it reached fn.apply(targetObj, args)
\*   evaluated  how many function sources it evaluated
\*   had        registry.has(target) when it was entered
\*   known      whether register() had returned the target as an id before
\*              the dispatch was entered
Returned(msg, result, didInvoke, evaluated, had, known) ==
    [valid |-> TRUE, msg |-> msg, result |-> result, invoked |-> didInvoke,
     evaluated |-> evaluated, had |-> had, known |-> known]

NoDispatch ==
    [Returned(AbsentMessage, HostFail(""), FALSE, 0, FALSE, FALSE) EXCEPT !.valid = FALSE]

\* The ids register() has returned so far.
IssuedIds == { issued[k].id : k \in 1..Len(issued) }

\* The messages the page passes to __playwrightBridge.
Msg(t, m, a) == [target |-> t, method |-> m, args |-> a]
HostMessages ==
    { AbsentMessage,
      Msg("page", "$", <<DataS("str")>>),
      Msg("page", "$$", <<DataS("str")>>),
      Msg("playwright.request", "newContext", <<>>),
      Msg("page", "title", <<>>),
      Msg("page", "click", <<DataS("str")>>),
      Msg("page", "keyboard", <<>>),
      Msg("page.keyboard", "press", <<DataS("str")>>),
      Msg("page", "bare", <<>>),
      Msg("page", "mixed", <<>>),
      Msg("page", "holder", <<>>),
      Msg("page", "screenshot", <<>>),
      Msg("page", "viewportSize", <<>>),
      Msg("page", "nums", <<>>),
      Msg("page", "nested", <<>>),
      Msg("page", "locator", <<>>),
      Msg("page", "ring", <<>>),
      Msg("page", "keyboard", <<SFuncS("foo() {}")>>),
      Msg("page", "evaluate", <<SFuncS("() => 1")>>),
      Msg("nope", "click", <<>>),
      Msg("page", "", <<>>),
      Msg(RegistryTarget, "size", <<>>),
      Msg(RegistryTarget, "clear", <<>>),
      Msg(RegistryTarget, "reset", <<SFuncS("foo() {}"), HRefS(HandleId(2))>>),
      Msg(HandleId(1), "click", <<>>),
      Msg(HandleId(1), "textContent", <<HRefS(HandleId(2))>>),
      Msg(HandleId(2), "click", <<ArrayS(<<SFuncS("foo() {}")>>)>>),
      Msg(HandleId(2), "", <<>>) }

\* part_006:215-270   one call of __playwrightBridge(message), up to its first
\* suspension or its return
DispatchStart(msg) ==
    /\ nDispatch < MaxDispatch
    /\ nDispatch' = nDispatch + 1
    /\ LET d == DispatchSync(msg, handles, nextId) IN
       /\ handles' = d.handles
       /\ nextId' = d.nextId
       /\ IF d.returned
          THEN /\ last' = Returned(msg, d.result, FALSE, d.evaluated,
                                   has(handles, msg.target), msg.target \in IssuedIds)
               /\ running' = running
          ELSE /\ BagCardinality(running) < MaxRunning
               /\ running' = running (+) SetToBag({[msg |-> msg,
                                 targetObj |-> d.targetObj, fn |-> d.fn, args |-> d.args,
                                 evaluated |-> d.evaluated, had |-> has(handles, msg.target),
                                 known |-> msg.target \in IssuedIds]})
               /\ last' = last
    /\ UNCHANGED <<issued, nDelete>>
    /\ UNCHANGED workerVars
    /\ UNCHANGED testVars
    /\ UNCHANGED apiVars
    /\ UNCHANGED proxyVars

\* part_006:270-278   the invoked method settles: its result is serialized, or
\* its exception (or the classifier's) becomes a failure Result
DispatchFinish(r) ==
    /\ BagIn(r, running)
    /\ running' = running (-) SetToBag({r})
    /\ IF Heap[r.fn].throws # ""
       THEN /\ last' = Returned(r.msg, HostFail(Heap[r.fn].throws), TRUE, r.evaluated,
                                r.had, r.known)
            /\ UNCHANGED <<handles, nextId, issued>>
       ELSE LET x == serializeResult(Heap[r.fn].ret, handles, nextId, issued) IN
            /\ handles' = x.handles
            /\ nextId' = x.nextId
            /\ issued' = x.issued
            /\ last' = Returned(r.msg,
                                IF x.threw THEN HostFail(NeedsHandleError) ELSE HostOk(x.out),
                                TRUE, r.evaluated, r.had, r.known)
    /\ UNCHANGED <<nDispatch, nDelete>>
    /\ UNCHANGED workerVars
    /\ UNCHANGED testVars
    /\ UNCHANGED apiVars
    /\ UNCHANGED proxyVars

\* part_006:50-52   registry.delete(id); no code of the bridge calls it
RegistryDelete(id) ==
    /\ nDelete < MaxDelete
    /\ nDelete' = nDelete + 1
    /\ has(handles, id)
    /\ handles' = delete(handles, nextId, id).handles
    /\ nextId' = delete(handles, nextId, id).nextId
    /\ UNCHANGED <<issued, running, last, nDispatch>>
    /\ UNCHANGED workerVars
    /\ UNCHANGED testVars
    /\ UNCHANGED apiVars
    /\ UNCHANGED proxyVars

----------------------------------------------------------------------------
(* Worker-side results (playwright.ts:151-196).  What arrives in           *)
(* Result.data is a serialized value of the host; what the test code gets  *)
(* is a worker value: the data as it arrived, an array, or a handle proxy. *)

\* playwright.ts:175-196   createElementHandleProxy(handleId): a Proxy object
HandleProxyV(id) == [kind |-> "proxy", src |-> id, elems |-> <<>>]

\* playwright.ts:151-153
isHandleReference(data) == data.kind = "href"

RECURSIVE unwrapResult(_)
\* Mutant of unwrapResult: every object that arrives is taken for a handle
\* reference, whether or not it has the __handleId key.
unwrapResult_anyObject(data) ==
    IF data.kind \in {"href", "data"} THEN HandleProxyV(data.src)
    ELSE IF data.kind = "array"
    THEN ArrayV([i \in 1..Len(data.elems) |-> unwrapResult(data.elems[i])])
    ELSE data

\* playwright.ts:158-170
unwrapResult(data) ==
    IF isHandleReference(data) THEN HandleProxyV(data.src)
    ELSE IF data.kind = "array"
    THEN ArrayV([i \in 1..Len(data.elems) |-> unwrapResult(data.elems[i])])
    ELSE data

----------------------------------------------------------------------------
(* Worker-side proxies (playwright.ts:175-283).  A proxy is what its       *)
(* closure holds: the kind of proxy, the target string and, for a method   *)
(* function, the property it was read as.                                  *)

\* playwright.ts:257-283   createFixturesProxy()
FixturesProxy == [kind |-> "fixtures", target |-> "", method |-> ""]
\* playwright.ts:202-251   createDynamicProxy(target)
DynamicProxy(target) == [kind |-> "dynamic", target |-> target, method |-> ""]
\* playwright.ts:221-243   proxiedFunction: methodFunction(target, prop) in a Proxy
MethodProxy(target, prop) == [kind |-> "method", target |-> target, method |-> prop]
\* playwright.ts:175-196   createElementHandleProxy(handleId), as a callee
HandleProxy(handleId) == [kind |-> "handle", target |-> handleId, method |-> ""]
\* Mutant of HandleMethod: the function sends the property name as the target.
HandleMethod_propAsTarget(handleId, prop) ==
    [kind |-> "handleMethod", target |-> prop, method |-> prop]
\* playwright.ts:188-191   the async function the handle proxy's get trap returns
HandleMethod(handleId, prop) == [kind |-> "handleMethod", target |-> handleId, method |-> prop]
\* the value undefined, and what reading a property of a plain function gives
UndefinedProxy == [kind |-> "undefined", target |-> "", method |-> ""]

\* Mutant of NestedTarget: the nested proxy is bound to the property alone.
NestedTarget_dropsPrefix(target, prop) == prop
\* playwright.ts:240   const nestedTarget = `${target}.${prop}`
NestedTarget(target, prop) == target \o "." \o prop

\* playwright.ts:177-193, 206-247, 229-242, 261-277   the get traps: proxy[prop]
ProxyGet(proxy, prop) ==
    IF proxy.kind \notin {"fixtures", "dynamic", "method", "handle"} THEN UndefinedProxy
    ELSE IF prop = "then" THEN UndefinedProxy
    ELSE IF proxy.kind = "fixtures" THEN DynamicProxy(prop)
    ELSE IF proxy.kind = "dynamic" THEN MethodProxy(proxy.target, prop)
    ELSE IF proxy.kind = "method"
    THEN MethodProxy(NestedTarget(proxy.target, proxy.method), prop)
    ELSE HandleMethod(proxy.target, prop)

RECURSIVE Navigate(_, _)
\* root.p1.p2...pn for chain = <<p1, ..., pn>>
Navigate(root, chain) ==
    IF chain = <<>> THEN root
    ELSE Navigate(ProxyGet(root, Head(chain)), Tail(chain))

NoMessage == [target |-> "", method |-> "", args |-> <<>>]
NotCallableMsg == "is not a function"

\* playwright.ts:188-189, 221-222, 103-134   callee(...args) up to the await:
\* whether a Request was posted, the message in it, and the error raised at once
CallProxy(callee, args) ==
    IF callee.kind \in {"method", "handleMethod"}
    THEN LET message == [target |-> callee.target, method |-> callee.method,
                         args |-> serializeArgs(args)]
         IN IF Cloneable(message.args)
            THEN [posted |-> TRUE, msg |-> message, error |-> ""]
            ELSE [posted |-> FALSE, msg |-> NoMessage, error |-> CloneErrMsg]
    ELSE [posted |-> FALSE, msg |-> NoMessage, error |-> NotCallableMsg]

RECURSIVE HandleProxiesIn(_)
\* the handle proxies in a value the test code was given
HandleProxiesIn(value) ==
    IF value.kind = "proxy" THEN {value}
    ELSE IF value.kind = "array"
    THEN UNION { HandleProxiesIn(value.elems[i]) : i \in 1..Len(value.elems) }
    ELSE {}

\* The property chains test code reads off the fixtures, and the calls it
\* makes: on fixtures, and on the handle proxies it holds.
ReadChains == { <<"page">>, <<"page", "keyboard", "press">>, <<"page", "then">> }
ProxyCalls(proxies) ==
    { [root |-> "", chain |-> <<"page", "$">>, args |-> <<>>],
      [root |-> "", chain |-> <<"page", "keyboard", "press">>, args |-> <<PrimV("a")>>],
      [root |-> "", chain |-> <<"playwright", "request", "newContext">>, args |-> <<>>],
      [root |-> "", chain |-> <<"page", "then">>, args |-> <<>>] }
    \cup { [root |-> "", chain |-> <<"page", "title">>, args |-> <<h>>] : h \in proxies }
    \cup { [root |-> h.src, chain |-> <<"click">>, args |-> <<>>] : h \in proxies }
    \cup { [root |-> h.src, chain |-> <<"$">>, args |-> <<>>] : h \in proxies }
    \cup { [root |-> h.src, chain |-> <<"then">>, args |-> <<>>] : h \in proxies }
    \cup { [root |-> h.src, chain |-> <<"textContent">>, args |-> <<ArrayV(<<h>>)>>] : h \in proxies }

ClearMessage == Msg(RegistryTarget, "clear", <<>>)
SizeMessage  == Msg(RegistryTarget, "size", <<>>)

RootOf(call) == IF call.root = "" THEN FixturesProxy ELSE HandleProxy(call.root)
IsPosted(a) == a.posted
\* the messages of the Requests posted so far, in order
PostedMsgs ==
    LET p == SelectSeq(attempts, IsPosted) IN [i \in 1..Len(p) |-> p[i].msg]
\* the worker has received every Result the dispatcher returned
Delivered == ~last.valid \/ gotResult = last

\* test code reads root.p1...pn and keeps what it evaluates to, calling nothing
ProxyRead(chain) ==
    /\ lastRead' = Navigate(FixturesProxy, chain)
    /\ UNCHANGED <<held, attempts, gotResult>>
    /\ UNCHANGED workerVars
    /\ UNCHANGED hostVars
    /\ UNCHANGED testVars
    /\ UNCHANGED apiVars

\* test code calls root.p1...pn(args)
ProxyInvoke(call) ==
    /\ Len(attempts) < MaxAttempts
    /\ LET c == CallProxy(Navigate(RootOf(call), call.chain), call.args) IN
       attempts' = Append(attempts, [root |-> call.root, chain |-> call.chain, args |-> call.args,
                                     posted |-> c.posted, msg |-> c.msg, error |-> c.error])
    /\ UNCHANGED <<held, lastRead, gotResult>>
    /\ UNCHANGED workerVars
    /\ UNCHANGED hostVars
    /\ UNCHANGED testVars
    /\ UNCHANGED apiVars

\* playwright.ts:302-305   clearRegistry()
ProxyClearRegistry ==
    /\ Len(attempts) < MaxAttempts
    /\ attempts' = Append(attempts, [root |-> RegistryTarget, chain |-> <<"clear">>, args |-> <<>>,
                                     posted |-> TRUE, msg |-> ClearMessage, error |-> ""])
    /\ UNCHANGED <<held, lastRead, gotResult>>
    /\ UNCHANGED workerVars
    /\ UNCHANGED hostVars
    /\ UNCHANGED testVars
    /\ UNCHANGED apiVars

\* part_001:31-38   the relay hands the next posted Request to the dispatcher
BridgeDispatch ==
    /\ Delivered
    /\ nDispatch < Len(PostedMsgs)
    /\ DispatchStart(PostedMsgs[nDispatch + 1])

\* the invoked method settles and the dispatcher returns
BridgeFinish(r) ==
    /\ Delivered
    /\ DispatchFinish(r)

\* playwright.ts:189-190, 222-223   the Response arrives and the proxy method
\* resumes: unwrapResult(checkResult(result)) is what the test code gets
ProxyReceive ==
    /\ last.valid
    /\ gotResult # last
    /\ gotResult' = last
    /\ LET res == checkResult(last.result) IN
       held' = IF res.threw THEN held
               ELSE held \cup HandleProxiesIn(unwrapResult(res.value))
    /\ UNCHANGED <<attempts, lastRead>>
    /\ UNCHANGED workerVars
    /\ UNCHANGED hostVars
    /\ UNCHANGED testVars
    /\ UNCHANGED apiVars

----------------------------------------------------------------------------
(* The test cases of one worker (playwright.ts:289-416, 444-454).  mocha   *)
(* runs the root suite's before-each hooks one after the other, awaiting   *)
(* the promise each returns, then the test body; a hook that fails aborts  *)
(* the run.  A test case ends when its body settles or mocha times it out, *)
(* whether or not the host still runs calls it made.                       *)

\* The calls test bodies make.
TestMessages ==
    { Msg("page", "$", <<DataS("str")>>),
      Msg("page", "title", <<>>),
      Msg(HandleId(1), "click", <<>>),
      SizeMessage,
      ClearMessage }

\* Mutant of ShouldInstallHook: the installed flag is not consulted.
ShouldInstallHook_unguarded(suitePresent, installed) == suitePresent

\* playwright.ts:406   mochaGlobal?.suite && !mochaGlobal.__playwrightRegistryHookInstalled
ShouldInstallHook(suitePresent, installed) == suitePresent /\ ~installed

\* playwright.ts:289, 404-416   the module is evaluated once more: a fresh
\* __autoClearRegistry = true, and the hook closing over it installed when
\* mocha's root suite is there and no hook was installed before.  mocha may
\* be missing only as long as no test case has started.
LoadModule(suitePresent) ==
    /\ phase = "idle"
    /\ suitePresent \/ tests = 0
    /\ Len(modules) < MaxLoads
    /\ modules' = Append(modules, TRUE)
    /\ IF ShouldInstallHook(suitePresent, hookInstalled)
       THEN /\ hooks' = Append(hooks, Len(modules) + 1)
            /\ hookInstalled' = TRUE
       ELSE UNCHANGED <<hooks, hookInstalled>>
    /\ UNCHANGED <<phase, hookIdx, clearsPosted, tests, bodyStartAt, lastToggle>>
    /\ UNCHANGED workerVars
    /\ UNCHANGED proxyVars
    /\ UNCHANGED apiVars
    /\ UNCHANGED hostVars

\* mocha starts the next test case with the first root before-each hook
TestStart ==
    /\ phase = "idle"
    /\ Len(modules) >= 1
    /\ tests < MaxTests
    /\ tests' = tests + 1
    /\ phase' = "hooks"
    /\ hookIdx' = 1
    /\ clearsPosted' = 0
    /\ UNCHANGED <<modules, hookInstalled, hooks, bodyStartAt, lastToggle>>
    /\ UNCHANGED workerVars
    /\ UNCHANGED proxyVars
    /\ UNCHANGED apiVars
    /\ UNCHANGED hostVars

\* playwright.ts:407-411   the hook: with its module's __autoClearRegistry set
\* it returns clearRegistry(), which has posted the clear Request; otherwise
\* it returns at once
RunHook ==
    /\ phase = "hooks"
    /\ hookIdx <= Len(hooks)
    /\ IF modules[hooks[hookIdx]]
       THEN /\ phase' = "clearing"
            /\ clearsPosted' = clearsPosted + 1
            /\ hookIdx' = hookIdx
       ELSE /\ phase' = "hooks"
            /\ clearsPosted' = clearsPosted
            /\ hookIdx' = hookIdx + 1
    /\ UNCHANGED <<modules, hookInstalled, hooks, tests, bodyStartAt, lastToggle>>
    /\ UNCHANGED workerVars
    /\ UNCHANGED proxyVars
    /\ UNCHANGED apiVars
    /\ UNCHANGED hostVars

\* part_006:229-232, playwright.ts:302-305   the host dispatches the hook's
\* clear Request and clearRegistry() resolves with its Result
HookAnswered ==
    /\ phase = "clearing"
    /\ LET d == DispatchSync(ClearMessage, handles, nextId) IN
       /\ handles' = d.handles
       /\ nextId' = d.nextId
       /\ phase' = IF checkResult(IF d.result.success THEN OkResult("true")
                                  ELSE FailResult(d.result.error)).threw
                   THEN "aborted" ELSE "hooks"
    /\ hookIdx' = hookIdx + 1
    /\ UNCHANGED <<modules, hookInstalled, hooks, clearsPosted, tests, bodyStartAt, lastToggle>>
    /\ UNCHANGED <<issued, running, last, nDispatch, nDelete>>
    /\ UNCHANGED workerVars
    /\ UNCHANGED proxyVars
    /\ UNCHANGED apiVars

\* playwright.ts:109-112, 302-305   the hook's clear Request is never answered:
\* clearRegistry() rejects and mocha aborts the run
HookFails ==
    /\ phase = "clearing"
    /\ phase' = "aborted"
    /\ UNCHANGED <<modules, hookInstalled, hooks, hookIdx, clearsPosted, tests, bodyStartAt, lastToggle>>
    /\ UNCHANGED workerVars
    /\ UNCHANGED proxyVars
    /\ UNCHANGED apiVars
    /\ UNCHANGED hostVars

\* playwright.ts:449-452   every root hook is done: the test body is entered
BodyStart ==
    /\ phase = "hooks"
    /\ hookIdx > Len(hooks)
    /\ phase' = "body"
    /\ bodyStartAt' = nDispatch
    /\ UNCHANGED <<modules, hookInstalled, hooks, hookIdx, clearsPosted, tests, lastToggle>>
    /\ UNCHANGED workerVars
    /\ UNCHANGED proxyVars
    /\ UNCHANGED apiVars
    /\ UNCHANGED hostVars

\* a call of the test body reaches the host dispatcher
BodyCall(msg) ==
    /\ phase = "body"
    /\ DispatchStart(msg)

\* playwright.ts:310-312   disableAutoClearRegistry() of module instance m
DisableAutoClear(m) ==
    /\ phase = "body"
    /\ modules' = [modules EXCEPT ![m] = FALSE]
    /\ lastToggle' = "disable"
    /\ UNCHANGED <<hookInstalled, hooks, phase, hookIdx, clearsPosted, tests, bodyStartAt>>
    /\ UNCHANGED workerVars
    /\ UNCHANGED proxyVars
    /\ UNCHANGED apiVars
    /\ UNCHANGED hostVars

\* playwright.ts:317-319   enableAutoClearRegistry() of module instance m
EnableAutoClear(m) ==
    /\ phase = "body"
    /\ modules' = [modules EXCEPT ![m] = TRUE]
    /\ lastToggle' = "enable"
    /\ UNCHANGED <<hookInstalled, hooks, phase, hookIdx, clearsPosted, tests, bodyStartAt>>
    /\ UNCHANGED workerVars
    /\ UNCHANGED proxyVars
    /\ UNCHANGED apiVars
    /\ UNCHANGED hostVars

\* the test case ends: its body settled, or mocha timed it out
TestEnd ==
    /\ phase = "body"
    /\ phase' = "idle"
    /\ UNCHANGED <<modules, hookInstalled, hooks, hookIdx, clearsPosted, tests, bodyStartAt, lastToggle>>
    /\ UNCHANGED workerVars
    /\ UNCHANGED proxyVars
    /\ UNCHANGED apiVars
    /\ UNCHANGED hostVars

----------------------------------------------------------------------------
(* Specifications.                                                         *)

Init ==
    /\ requestId = 0
    /\ calls = <<>>
    /\ toHost = EmptyBag
    /\ toWorker = EmptyBag
    /\ relay = EmptyBag
    /\ received = [i \in 1..(MaxCalls + 1) |-> 0]
    /\ responded = [i \in 1..(MaxCalls + 1) |-> 0]
    /\ injected = 0
    /\ handles = EmptyMap
    /\ nextId = 1
    /\ issued = <<>>
    /\ running = EmptyBag
    /\ last = NoDispatch
    /\ nDispatch = 0
    /\ nDelete = 0
    /\ modules = <<>>
    /\ hookInstalled = FALSE
    /\ hooks = <<>>
    /\ phase = "idle"
    /\ hookIdx = 1
    /\ clearsPosted = 0
    /\ tests = 0
    /\ bodyStartAt = 0
    /\ lastToggle = "none"
    /\ held = {}
    /\ attempts = <<>>
    /\ lastRead = UndefinedProxy
    /\ gotResult = NoDispatch
    /\ apiRequestId = 0
    /\ apiCalls = <<>>

Next ==
    \/ \E inp \in CallInputs : SendPlaywrightMessage(inp)
    \/ \E i \in 1..MaxCalls : TimerFire(i)
    \/ \E data \in BagToSet(toWorker) : WorkerReceive(data)
    \/ \E data \in BagToSet(toHost) : RelayReceive(data)
    \/ \E r \in BagToSet(relay) : \E o \in DispatcherOutcomes : RelaySettle(r, o)
    \/ \E data \in InjectMessages : Inject(data)

Spec == Init /\ [][Next]_vars

\* setTimeout callbacks run: an armed timer fires unless it is cleared first.
SpecLive == Spec /\ \A i \in 1..MaxCalls : WF_vars(TimerFire(i))

NextHost ==
    \/ \E msg \in HostMessages : DispatchStart(msg)
    \/ \E r \in BagToSet(running) : DispatchFinish(r)
    \/ \E id \in DOMAIN handles : RegistryDelete(id)

\* Both worker-side modules, the channel and the page relay.
NextTwoModules ==
    \/ \E inp \in CallInputs : SendPlaywrightMessage(inp)
    \/ \E inp \in ApiInputs : ApiSendPlaywrightMessage(inp)
    \/ \E i \in 1..MaxCalls : TimerFire(i)
    \/ \E i \in 1..MaxApiCalls : ApiTimerFire(i)
    \/ \E data \in BagToSet(toWorker) : ChannelDeliver(data)
    \/ \E data \in BagToSet(toHost) : RelayReceive(data)
    \/ \E r \in BagToSet(relay) : \E o \in DispatcherOutcomes : RelaySettle(r, o)

SpecTwoModules == Init /\ [][NextTwoModules]_vars

SpecHost == Init /\ [][NextHost]_vars

NextTests ==
    \/ \E suitePresent \in BOOLEAN : LoadModule(suitePresent)
    \/ TestStart
    \/ RunHook
    \/ HookAnswered
    \/ HookFails
    \/ BodyStart
    \/ \E msg \in TestMessages : BodyCall(msg)
    \/ \E r \in BagToSet(running) : DispatchFinish(r)
    \/ \E m \in 1..Len(modules) : DisableAutoClear(m)
    \/ \E m \in 1..Len(modules) : EnableAutoClear(m)
    \/ TestEnd

SpecTests == Init /\ [][NextTests]_vars

NextProxy ==
    \/ \E chain \in ReadChains : ProxyRead(chain)
    \/ \E call \in ProxyCalls(held) : ProxyInvoke(call)
    \/ ProxyClearRegistry
    \/ BridgeDispatch
    \/ \E r \in BagToSet(running) : BridgeFinish(r)
    \/ ProxyReceive

SpecProxy == Init /\ [][NextProxy]_vars

----------------------------------------------------------------------------
(* Claims about the worker-side module, the channel and the relay (Spec).  *)

\* The step delivers message `data` to the worker's channel listeners.
Delivers(data) ==
    /\ BagIn(data, toWorker)
    /\ toWorker' = toWorker (-) SetToBag({data})
    /\ Len(calls') = Len(calls)

\* C1: with any number of calls in flight and Responses arriving in any
\* order, the delivery of a message changes a call (its promise, its timer or
\* its listener) only if the message is a Response whose id equals the id of
\* that call's Request.
C1_OnlyMatchingResponseSettles ==
    [][ \A data \in BagToSet(toWorker) :
          Delivers(data) =>
            \A i \in 1..Len(calls) :
              calls'[i] # calls[i] => (data.resp /\ data.id = calls[i].id) ]_vars

\* Call 2 was settled by its Response while call 1, made earlier, is still
\* pending with its timer armed and its listener registered.
C1_Witness ==
    /\ Len(calls) = 2
    /\ calls[2].by = "response"
    /\ calls[1].state = "pending" /\ calls[1].timer = "armed" /\ calls[1].listener

\* The number of Requests with id j the relay has taken and not yet answered.
RelayPending(j) == CountWithId(relay, j)

\* C2: for every Request the relay has received whose dispatcher call has
\* settled, the relay has posted exactly one Response carrying the Request's
\* id: per id, Responses posted = Requests received - Requests still awaiting
\* the dispatcher.
C2_OneResponsePerRequest ==
    \A j \in DOMAIN received : responded[j] = received[j] - RelayPending(j)

\* The relay has answered one Request on its failure path and one on its
\* success path.
C2_Witness ==
    /\ received[1] = 1 /\ responded[1] = 1
    /\ received[2] = 1 /\ responded[2] = 1
    /\ BagIn(Response(1, FailResult("boom")), toWorker)
    /\ BagIn(Response(2, OkResult("data")), toWorker)

\* What C3 says of one call: resolve or reject is invoked at most once; the
\* call is settled by the first Response carrying its id or by the expiry of
\* its timeout; settled by the Response, its timer has been disarmed and has
\* never fired; settled by the timeout, its timer has fired.
SettlesOnceByResponseOrTimeout(c) ==
    /\ c.settles <= 1
    /\ c.state = "pending" => c.settles = 0 /\ c.timer = "armed" /\ c.listener
    /\ c.state # "pending" => c.by \in {"response", "timeout"} /\ ~c.listener
    /\ c.by = "response" => c.state = "resolved" /\ c.timer = "cleared"
    /\ c.by = "timeout" => c.state = "rejected" /\ c.timer = "fired" /\ c.error = TimeoutMsg

\* C3 as stated: every call made through sendPlaywrightMessage settles exactly
\* once, by whichever happens first of the first Response carrying its id and
\* the expiry of its timeout.
C3_Original == \A i \in 1..Len(calls) : SettlesOnceByResponseOrTimeout(calls[i])

\* C3 as amended: a call whose Request was posted settles at most once, by
\* whichever happens first of the first Response carrying its id (the timer is
\* then disarmed) and the expiry of its timeout, and no later Response or
\* expiry invokes resolve or reject again; a call whose channel.postMessage
\* threw is rejected at once with that error and stays so.
C3_SettlesOnce ==
    \A i \in 1..Len(calls) :
        IF calls[i].posted
        THEN SettlesOnceByResponseOrTimeout(calls[i])
        ELSE calls[i].state = "rejected" /\ calls[i].by = "post"
               /\ calls[i].error = CloneErrMsg

\* Call 1 was resolved by a Response forged with its id; the relay's own
\* Response for id 1 was posted and delivered afterwards and changed nothing.
C3_Witness ==
    /\ Len(calls) >= 1
    /\ calls[1].posted /\ calls[1].by = "response"
    /\ calls[1].result = OkResult("forged")
    /\ responded[1] = 1 /\ injected = 1
    /\ toWorker = EmptyBag

\* Error strings a host Result may carry.
ErrorSamples == {"", "boom", "timeout", TimeoutMsg, NotFoundError("handle_1")}

\* The error of a timeout differs from the error checkResult raises for a
\* failure Result, whatever string it carries, and that error contains the
\* carried string.
ErrorsDistinct ==
    \A e \in ErrorSamples \cup BridgeErrors :
        /\ checkResult(FailResult(e)).threw
        /\ checkResult(FailResult(e)).value # TimeoutMsg
        /\ Contains(checkResult(FailResult(e)).value, e)

\* What the caller gets from a call answered with success: false.
FailureOutcomeCarriesError(c) ==
    (c.by = "response" /\ ~c.result.success) =>
        /\ CallOutcome(c).threw
        /\ Contains(CallOutcome(c).value, c.result.error)
        /\ CallOutcome(c).value # TimeoutMsg

C5_StaleResponseIgnored ==
    [][ \A data \in BagToSet(toWorker) :
          ( /\ Delivers(data)
            /\ data.resp
            /\ \E i \in 1..Len(calls) : calls[i].id = data.id /\ calls[i].by = "timeout" )
          => calls' = calls ]_vars

\* Call 1 was rejected by its timeout while call 2 is pending; the relay's
\* Response for id 1 was posted and has been delivered since (the channel to
\* the worker is empty and nothing was forged).
C5_Witness ==
    /\ Len(calls) = 2
    /\ calls[1].by = "timeout" /\ responded[1] = 1
    /\ calls[2].state = "pending"
    /\ injected = 0 /\ toWorker = EmptyBag

\* C6: every call eventually settles, whether or not the host ever posts a
\* Response, given that armed timers eventually fire.
C6_EveryCallSettles ==
    \A i \in 1..MaxCalls :
        (Len(calls) >= i) ~> (Len(calls) >= i /\ calls[i].state # "pending")

\* A posted call has been settled although the relay never took its Request
\* and no Response was ever posted.
C6_Witness ==
    /\ Len(calls) >= 1
    /\ calls[1].posted /\ calls[1].state # "pending"
    /\ \A j \in DOMAIN received : received[j] = 0 /\ responded[j] = 0
    /\ injected = 0

\* C7: the k-th call to sendPlaywrightMessage takes id k whatever became of
\* the earlier calls, so the Requests the module has posted carry distinct,
\* increasing ids (checked on the channel while no other context has posted).
C7_RequestIdsUnique ==
    /\ requestId = Len(calls)
    /\ \A k \in 1..Len(calls) : calls[k].id = k
    /\ injected = 0 =>
          \A m \in BagToSet(toHost) :
              /\ CopiesIn(m, toHost) = 1
              /\ m.id \in 1..Len(calls) /\ calls[m.id].posted
              /\ \A m2 \in BagToSet(toHost) : m2.id = m.id => m2 = m

\* The second call posted id 2 after the first call had been rejected.
C7_Witness ==
    /\ Len(calls) = 2
    /\ calls[1].state = "rejected"
    /\ \E m \in BagToSet(toHost) : m.req /\ m.id = 2

\* C8: the n-th call to register of the registry returned exactly handle_<n>,
\* whatever delete and clear calls came in between, and the counter stands
\* one past the number of register calls.
C8_NthRegisterReturnsHandleN ==
    /\ nextId = Len(issued) + 1
    /\ \A n \in 1..Len(issued) : issued[n].id = "handle_" \o ToString(n)

\* Three registrations of which only the third is left: handle_1 and
\* handle_2 went by one delete and one clear, and the register call that
\* came after the clear returned handle_3.
C8_Witness ==
    /\ Len(issued) = 3
    /\ nDelete = 1
    /\ DOMAIN handles = {"handle_3"}

\* C9: an id once returned by register resolves, at every later moment, to the
\* value it was issued for or to nothing; a dispatch in flight on a handle
\* target holds the value that id was issued for.
C9_HandleNeverAliases ==
    /\ \A n \in 1..Len(issued) :
          get(handles, issued[n].id) \in {issued[n].value, "undef"}
    /\ \A r \in BagToSet(running) : \A n \in 1..Len(issued) :
          (r.had /\ r.msg.target = issued[n].id) => r.targetObj = issued[n].value

\* With no delete at all, an id issued for one value resolves to nothing
\* (it was cleared) while a later id, issued for another value, resolves to
\* its own.
C9_Witness ==
    /\ nDelete = 0
    /\ \E n, m \in 1..Len(issued) :
          /\ n < m
          /\ issued[n].value # issued[m].value
          /\ get(handles, issued[n].id) = "undef"
          /\ get(handles, issued[m].id) = issued[m].value

\* C10: a Request (target and method present) whose target is a handle id
\* issued earlier and gone from the registry by a clear gets the failure
\* Result "Target '<id>' not found" with the hint that it was possibly
\* cleared between tests, and no method is invoked.
C10_ClearedHandleNotFound ==
    ( /\ last.valid
      /\ last.msg # AbsentMessage
      /\ ~Falsy(last.msg.method)
      /\ last.known /\ ~last.had
      /\ nDelete = 0 )
    => /\ ~last.invoked
       /\ ~last.result.success
       /\ last.result.error = NotFoundError(last.msg.target)
       /\ Contains(last.result.error, "Possibly cleared between tests")

\* Every loaded module instance has auto-clear enabled and the hook is on
\* the root suite.
AutoClearEnabled ==
    /\ Len(hooks) >= 1
    /\ \A m \in 1..Len(modules) : modules[m]

\* C11: with auto-clear enabled, at the start of the body of every test case
\* (the body entered, no call made yet) a '__registry' 'size' Request is
\* answered with 0.
C11_RegistryEmptyAtTestStart ==
    (phase = "body" /\ nDispatch = bodyStartAt /\ AutoClearEnabled)
        => DispatchSync(SizeMessage, handles, nextId).result = HostOk(NumS(0))

\* A step in which the dispatcher answers a clear Request of a test body.
ManualClear ==
    /\ nDispatch' = nDispatch + 1
    /\ last'.valid /\ last'.msg = ClearMessage

\* C12: while auto-clear is disabled (the last toggle called was
\* disableAutoClear), every handle in the registry stays there with the same
\* object, through test case ends and starts, until clear is called manually.
C12_HandlesPersistWhileDisabled ==
    [][ (lastToggle = "disable" /\ lastToggle' = "disable" /\ ~ManualClear)
          => \A id \in DOMAIN handles :
                id \in DOMAIN handles' /\ handles'[id] = handles[id] ]_vars

\* A step in which a root before-each hook runs.
HookRuns ==
    /\ phase = "hooks" /\ hookIdx <= Len(hooks)
    /\ phase' = "clearing" \/ hookIdx' = hookIdx + 1

\* A step in which disableAutoClear or enableAutoClear is called.
Toggles ==
    /\ Len(modules') = Len(modules)
    /\ modules' # modules \/ lastToggle' # lastToggle

\* C13: the before-each hook posts a clear Request exactly when the last
\* toggle called was not disableAutoClear (none, or enableAutoClear), at every
\* later test case start; the toggles post nothing and leave the registry and
\* the dispatcher alone.
C13_ToggleReversibleProcessWide ==
    [][ /\ HookRuns => ((clearsPosted' = clearsPosted + 1) <=> (lastToggle # "disable"))
        /\ Toggles => UNCHANGED <<handles, nextId, issued, running, last, nDispatch,
                                  clearsPosted, phase, toHost, toWorker, calls>> ]_vars

\* C14: however many times the module was loaded, at most one before-each
\* hook is on the root suite and at most one clear Request is posted at the
\* start of a test case.
C14_AtMostOneHook ==
    /\ Len(hooks) <= 1
    /\ clearsPosted <= 1
    /\ hookInstalled <=> Len(hooks) = 1

\* The module was loaded twice with mocha there, and the test body was
\* entered after exactly one clear Request.
C14_Witness ==
    /\ Len(modules) = 2
    /\ Len(hooks) = 1 /\ hooks[1] = 1
    /\ phase = "body"
    /\ clearsPosted = 1

\* A step in which the method invoked by dispatch r settles.
Finishes(r) ==
    /\ BagIn(r, running)
    /\ running' = running (-) SetToBag({r})

\* A step in which the dispatcher is entered with a message other than the
\* registry's clear command.
EntersWithoutClear ==
    /\ nDispatch' = nDispatch + 1
    /\ running' # running \/ last'.msg # ClearMessage

\* C15: a dispatch whose method returns a single (non-array) value that needs
\* a handle succeeds and grows the registry by exactly one entry, a new id
\* mapped to that value, whether or not the value is registered already; a
\* dispatch whose method returns a directly serializable single value leaves
\* the registry unchanged; entering the dispatcher (other than for clear)
\* leaves it unchanged.
C15_SizeGrowsByOnePerHandle ==
    [][ /\ \A r \in BagToSet(running) :
             (Finishes(r) /\ Heap[r.fn].throws = "" /\ Heap[Heap[r.fn].ret].type # "array") =>
                LET v == Heap[r.fn].ret IN
                IF Heap[v].type # "buffer" /\ needsHandle(v) = "true"
                THEN /\ Cardinality(DOMAIN handles') = Cardinality(DOMAIN handles) + 1
                     /\ last'.result.success
                     /\ last'.result.data.kind = "href"
                     /\ last'.result.data.src \notin DOMAIN handles
                     /\ last'.result.data.src \in DOMAIN handles'
                     /\ handles'[last'.result.data.src] = v
                     /\ \A id \in DOMAIN handles : id \in DOMAIN handles' /\ handles'[id] = handles[id]
                ELSE (Heap[v].type = "buffer" \/ needsHandle(v) = "false") =>
                        handles' = handles /\ last'.result.success
        /\ EntersWithoutClear => handles' = handles ]_vars

\* The same element was returned by two calls and is in the registry under
\* two ids.
C15_Witness ==
    /\ DOMAIN handles = {"handle_1", "handle_2"}
    /\ handles["handle_1"] = "el" /\ handles["handle_2"] = "el"
    /\ nDelete = 0

\* A step in which the dispatcher answers the Request msg at once.
Answers(msg) ==
    /\ nDispatch' = nDispatch + 1
    /\ running' = running
    /\ last'.valid /\ last'.msg = msg

\* C16: a '__registry' 'size' Request is answered with success and the number
\* of handles in the registry, which it leaves alone; that number is 0 while
\* nothing was registered, and 0 once a '__registry' 'clear' Request has been
\* answered with success, whatever the size was before.
C16_SizeCountsHandles ==
    [][ /\ Answers(SizeMessage) =>
              /\ last'.result = HostOk(NumS(Cardinality(DOMAIN handles)))
              /\ handles' = handles
              /\ Len(issued) = 0 => last'.result = HostOk(NumS(0))
        /\ Answers(ClearMessage) =>
              /\ last'.result = HostOk(TrueS)
              /\ DispatchSync(SizeMessage, handles', nextId').result = HostOk(NumS(0)) ]_vars

\* Handles were registered, nothing was deleted, and the last Request
\* answered was a size Request that returned 0 with the registry empty: a
\* clear was answered before it.
C16_Witness ==
    /\ Len(issued) >= 2
    /\ nDelete = 0
    /\ handles = EmptyMap
    /\ last.valid /\ last.msg = SizeMessage
    /\ last.result = HostOk(NumS(0))

\* A Result is well formed: success with no error, or failure with an error
\* string.
ResultWellFormed(res) ==
    IF res.success THEN res.error = Undefined
    ELSE res.error # Undefined /\ Len(res.error) >= 0

\* The payloads C17 lists for which the dispatcher returns without invoking
\* anything: no message, no target or method, a target that does not
\* resolve, a method that is not a function, an argument that cannot be
\* deserialized.
FailingPayload(msg, h) ==
    IF msg = AbsentMessage THEN TRUE
    ELSE IF msg.target = RegistryTarget THEN msg.method \notin {"size", "clear"}
    ELSE \/ Falsy(msg.target) \/ Falsy(msg.method)
         \/ ~Truthy(ResolveTarget(h, msg.target))
         \/ Heap[GetProperty(ResolveTarget(h, msg.target), msg.method)].type # "function"
         \/ deserializeArgs(msg.args, h).threw

\* The result v of a method cannot be serialized: a bare function, or an
\* array holding one.
Unserializable(v) ==
    \/ Heap[v].type = "function"
    \/ /\ Heap[v].type = "array"
       /\ \E i \in 1..Len(Heap[v].elems) : Heap[Heap[v].elems[i]].type = "function"

\* C17: every call of the dispatcher returns a well-formed Result; for a
\* missing message, a missing target or method, an unresolvable target, a
\* non-invocable method, an argument that cannot be deserialized, a method
\* that throws and a result that cannot be serialized the Result is a failure
\* with an error string; and whatever the exposed function does, the relay
\* posts exactly one Response with the Request's id.
C17_DispatcherTotal ==
    [][ /\ \A msg \in HostMessages :
             Answers(msg) =>
                /\ ResultWellFormed(last'.result)
                /\ FailingPayload(msg, handles) => ~last'.result.success
        /\ nDispatch' = nDispatch + 1 =>
              \/ running' # running
              \/ \E msg \in HostMessages : Answers(msg)
        /\ \A r \in BagToSet(running) :
             Finishes(r) =>
                /\ last'.valid /\ last'.msg = r.msg
                /\ ResultWellFormed(last'.result)
                /\ Heap[r.fn].throws # "" =>
                      last'.result = HostFail(Heap[r.fn].throws)
                /\ (Heap[r.fn].throws = "" /\ Unserializable(Heap[r.fn].ret)) =>
                      last'.result = HostFail(NeedsHandleError)
        /\ \A o \in DispatcherOutcomes : \A id \in 1..MaxCalls :
              /\ BagCardinality(RelayResponses(id, o)) = 1
              /\ \A x \in BagToSet(RelayResponses(id, o)) : x.resp /\ x.id = id
      ]_vars

\* A method was invoked and its result, an array holding a bare function,
\* could not be serialized: the dispatch returned the failure Result.
C17_Witness ==
    /\ last.valid /\ last.invoked
    /\ last.msg = Msg("page", "mixed", <<>>)
    /\ last.result = HostFail(NeedsHandleError)

\* C18 (for Requests that name a method): a Request whose target is neither
\* a registered handle id nor a path that resolves in the root context is
\* answered at once with a failure whose error contains the target string,
\* whatever its args.
C18_UnknownTargetNamed ==
    [][ \A msg \in HostMessages \ {AbsentMessage} :
          ( /\ Answers(msg)
            /\ msg.target # RegistryTarget
            /\ ~Falsy(msg.method)
            /\ ~has(handles, msg.target)
            /\ ~Truthy(getNestedProperty(Context, msg.target)) )
          => /\ ~last'.result.success
             /\ Contains(last'.result.error, msg.target) ]_vars

\* The target of msg resolves and its method is not a function-valued
\* property of what it resolves to.
MethodNotInvocable(msg, h) ==
    /\ msg # AbsentMessage
    /\ msg.target # RegistryTarget
    /\ ~Falsy(msg.target)
    /\ Truthy(ResolveTarget(h, msg.target))
    /\ \/ Falsy(msg.method)
       \/ Heap[GetProperty(ResolveTarget(h, msg.target), msg.method)].type # "function"

\* Nothing is invoked and the registry is as before.
NothingDone ==
    /\ running' = running
    /\ ~last'.invoked
    /\ handles' = handles /\ nextId' = nextId /\ issued' = issued

\* C19 as stated: a Request whose target resolves but whose method is not a
\* function-valued property of the target gets a failure whose error names
\* both the method and the target; nothing is invoked, the registry is
\* unchanged.
C19_Original ==
    [][ \A msg \in HostMessages :
          (Answers(msg) /\ MethodNotInvocable(msg, handles))
          => /\ ~last'.result.success
             /\ Contains(last'.result.error, "'" \o msg.method \o "'")
             /\ Contains(last'.result.error, "'" \o msg.target \o "'")
             /\ NothingDone ]_vars

\* C19 as amended: a Request that names a method, whose arguments
\* deserialize, whose target resolves and whose method is not a
\* function-valued property of the target gets the failure "Method '<method>'
\* is not a function on target '<target>'"; with no method it gets the
\* validation failure and with an argument that does not deserialize the
\* deserialization error; in each case nothing is invoked and the registry
\* is unchanged.
C19_MethodNotFunction ==
    [][ \A msg \in HostMessages :
          (Answers(msg) /\ MethodNotInvocable(msg, handles))
          => /\ ~last'.result.success
             /\ NothingDone
             /\ last'.result.error =
                   IF Falsy(msg.method) THEN "Message must include target and method"
                   ELSE IF deserializeArgs(msg.args, handles).threw THEN EvalError
                   ELSE NotFunctionError(msg.method, msg.target)
             /\ (~Falsy(msg.method) /\ ~deserializeArgs(msg.args, handles).threw) =>
                   /\ Contains(last'.result.error, "'" \o msg.method \o "'")
                   /\ Contains(last'.result.error, "'" \o msg.target \o "'") ]_vars

\* page.keyboard is an object, not a method: the Request to call it was
\* answered with the failure naming 'keyboard' and 'page'.
C19_Witness ==
    /\ last.valid /\ ~last.invoked
    /\ last.msg = Msg("page", "keyboard", <<>>)
    /\ last.result = HostFail("Method 'keyboard' is not a function on target 'page'")

RECURSIVE FunctionInside(_, _)
\* v holds a function at depth 1 or more, through own properties and array
\* elements; seen are the nodes already entered.
FunctionInside(v, seen) ==
    LET kids == { Heap[v].own[i][2] : i \in 1..Len(Heap[v].own) }
                  \cup { Heap[v].elems[i] : i \in 1..Len(Heap[v].elems) }
    IN \E k \in kids :
          \/ Heap[k].type = "function"
          \/ k \notin seen /\ FunctionInside(k, seen \cup {k})

\* C20: when an invoked method returns a value v, not itself a function, that
\* holds a function at depth 1 or more (in an object or in an array), the
\* dispatch succeeds with one HandleReference in place of the whole of v, and
\* the new id is registered for v itself.
C20_NestedFunctionMakesHandle ==
    [][ \A r \in BagToSet(running) :
          ( /\ Finishes(r)
            /\ Heap[r.fn].throws = ""
            /\ Heap[Heap[r.fn].ret].type # "function"
            /\ FunctionInside(Heap[r.fn].ret, {Heap[r.fn].ret}) )
          => /\ last'.result = HostOk(HRefS(HandleId(nextId)))
             /\ handles' = (HandleId(nextId) :> Heap[r.fn].ret) @@ handles ]_vars

RECURSIVE PlainData(_, _, _)
\* v is data with no function and no handle in it: a primitive, undefined,
\* null, a Buffer (at the top or as an array element, not under an object),
\* an array of such values or a plain object whose own property values are.
PlainData(v, seen, underObject) ==
    LET n == Heap[v] IN
    \/ n.type \in {"undefined", "null", "prim"}
    \/ n.type = "buffer" /\ ~underObject
    \/ /\ n.type = "array"
       /\ \A i \in 1..Len(n.elems) :
             n.elems[i] \notin seen /\ PlainData(n.elems[i], seen \cup {n.elems[i]}, underObject)
    \/ /\ n.type = "object"
       /\ n.proto = <<>>
       /\ \A i \in 1..Len(n.own) :
             n.own[i][2] \notin seen /\ PlainData(n.own[i][2], seen \cup {n.own[i][2]}, TRUE)

RECURSIVE WorkerView(_)
\* The host value v as the test code would hold it had it crossed unchanged.
WorkerView(v) ==
    IF Heap[v].type = "array"
    THEN ArrayV([i \in 1..Len(Heap[v].elems) |-> WorkerView(Heap[v].elems[i])])
    ELSE DataS(v)

RECURSIVE ArrivesAs(_)
\* The same, with every Buffer as the base64 text of its bytes.
ArrivesAs(v) ==
    IF Heap[v].type = "array"
    THEN ArrayV([i \in 1..Len(Heap[v].elems) |-> ArrivesAs(Heap[v].elems[i])])
    ELSE IF Heap[v].type = "buffer" THEN Base64S(v)
    ELSE DataS(v)

C23_SerializationTotal ==
    [][ \A r \in BagToSet(running) :
          (Finishes(r) /\ Heap[r.fn].throws = "" /\ Heap[Heap[r.fn].ret].type # "function")
          => last'.result.success ]_vars

RECURSIVE HoldsMissing(_)
\* Among the deserialized arguments (at any depth) is the value that
\* registry.get gives for an id it does not hold.
HoldsMissing(args) ==
    \E i \in 1..Len(args) :
       \/ args[i] = LiveS("undef")
       \/ args[i].kind = "array" /\ HoldsMissing(args[i].elems)

\* C25 as stated: a Request whose arguments hold a handle reference to an id
\* that is not in the registry is answered with a failure; no method is
\* ever invoked with the missing value among its arguments.
C25_MissingHandleArgFails ==
    \A r \in BagToSet(running) : ~HoldsMissing(r.args)

\* C28 as stated: when an invoked method returns an array of length n, the
\* dispatch succeeds with an array of length n in the same order, in which
\* each element that needs a handle is replaced by its own HandleReference
\* and every other element stands in place; the registry grows by exactly
\* the number of elements replaced, the new ids following element order.
C28_ArrayElementwise ==
    [][ \A r \in BagToSet(running) :
          (Finishes(r) /\ Heap[r.fn].throws = "" /\ Heap[Heap[r.fn].ret].type = "array") =>
          LET items == Heap[Heap[r.fn].ret].elems
              Repl == { i \in 1..Len(items) :
                          Heap[items[i]].type # "buffer" /\ needsHandle(items[i]) = "true" }
              Rank(i) == Cardinality({ j \in Repl : j < i })
              out == last'.result.data
          IN /\ last'.result.success
             /\ out.kind = "array"
             /\ Len(out.elems) = Len(items)
             /\ \A i \in 1..Len(items) :
                   IF i \in Repl
                   THEN /\ out.elems[i] = HRefS(HandleId(nextId + Rank(i)))
                        /\ HandleId(nextId + Rank(i)) \notin DOMAIN handles
                        /\ handles'[HandleId(nextId + Rank(i))] = items[i]
                   ELSE /\ out.elems[i].kind # "href"
                        /\ Heap[items[i]].type \notin {"array", "buffer"} => out.elems[i] = DataS(items[i])
             /\ Cardinality(DOMAIN handles') = Cardinality(DOMAIN handles) + Cardinality(Repl) ]_vars

\* C29: when an invoked method returns a bare function, the dispatch answers
\* a failure carrying the serialization error; the function is not
\* registered (registry, counter and history unchanged) and nothing is sent
\* as data.
C29_BareFunctionFails ==
    [][ \A r \in BagToSet(running) :
          (Finishes(r) /\ Heap[r.fn].throws = "" /\ Heap[Heap[r.fn].ret].type = "function")
          => /\ last'.result = HostFail(NeedsHandleError)
             /\ last'.result.data = NoData
             /\ handles' = handles
             /\ nextId' = nextId
             /\ issued' = issued ]_vars

\* page.bare() was invoked, returned a function and was answered with the
\* serialization error, with an element registered before and nothing since.
C29_Witness ==
    /\ last.valid
    /\ last.invoked
    /\ last.msg = Msg("page", "bare", <<>>)
    /\ last.result = HostFail(NeedsHandleError)
    /\ Len(issued) = 1
    /\ DOMAIN handles = {HandleId(1)}

\* C30 as stated: a plain object is classified as needing a handle exactly
\* when some own property value, at any depth and also inside an
\* array-valued property, is a function (or needs a handle); when an invoked
\* method returns such an object the result is a HandleReference, and
\* otherwise the object itself.
C30_ObjectClassifiedByProperties ==
    [][ \A r \in BagToSet(running) :
          (Finishes(r) /\ Heap[r.fn].throws = "" /\ Heap[Heap[r.fn].ret].type = "object") =>
          LET v == Heap[r.fn].ret IN
          /\ (needsHandle(v) = "true") <=> FunctionInside(v, {v})
          /\ last'.result.success
          /\ (last'.result.data.kind = "href") <=> FunctionInside(v, {v}) ]_vars

\* C27 as stated: with auto-clear enabled, a call issued by an earlier test
\* case that is still in flight when a later test case's body has begun
\* (the hook's clear done, no call of the later body made yet) produces, on
\* finishing, no handle id that resolves to an object during the later test
\* case.
C27_NoHandleAcrossTests ==
    [][ (phase = "body" /\ nDispatch = bodyStartAt /\ AutoClearEnabled) =>
          \A r \in BagToSet(running) :
             Finishes(r) =>
                \A id \in DOMAIN handles' :
                   has(handles', id) /\ Truthy(ResolveTarget(handles', id)) => id \in DOMAIN handles ]_vars

RECURSIVE RefsIn(_)
\* the handle ids a serialized value refers to
RefsIn(data) ==
    IF data.kind = "href" THEN {data.src}
    ELSE IF data.kind = "array"
    THEN UNION { RefsIn(data.elems[i]) : i \in 1..Len(data.elems) }
    ELSE {}

\* C21 as stated: every method call made on a handle proxy has posted a
\* Request whose target is that proxy's handle id.
C21_Original ==
    \A k \in 1..Len(attempts) :
       attempts[k].root \notin {"", RegistryTarget} =>
          /\ attempts[k].posted
          /\ attempts[k].msg.target = attempts[k].root

\* C21: (a) when the worker receives a successful Result, the test code
\* holds afterwards one handle proxy for each HandleReference in it, alone
\* or inside an array, and gains no other proxy; (b) a call of a property
\* other than 'then' on a held handle proxy, with arguments that can be
\* cloned once their functions are serialized, posts a Request with that
\* proxy's handle id as its target and the property as its method, and any
\* other call on a handle proxy posts nothing; (c) when the dispatcher
\* takes a Request whose target is an id in the registry, it either answers
\* a failure without invoking anything or invokes the named method of
\* exactly the object registered under that id.
C21_HandleProxyRoutesToHandle ==
    [][ /\ gotResult' # gotResult =>
             /\ last.result.success =>
                   held' = held \cup { HandleProxyV(id) : id \in RefsIn(last.result.data) }
             /\ ~last.result.success => held' = held
        /\ Len(attempts') = Len(attempts) + 1 =>
             LET a == attempts'[Len(attempts')] IN
             a.root \notin {"", RegistryTarget} =>
                /\ HandleProxyV(a.root) \in held
                /\ IF a.chain[1] = "then" \/ ~Cloneable(serializeArgs(a.args))
                   THEN ~a.posted /\ PostedMsgs' = PostedMsgs
                   ELSE /\ a.posted
                        /\ a.msg.target = a.root
                        /\ a.msg.method = a.chain[1]
                        /\ PostedMsgs' = Append(PostedMsgs, a.msg)
        /\ nDispatch' = nDispatch + 1 =>
             LET msg == PostedMsgs[nDispatch'] IN
             has(handles, msg.target) =>
                \/ /\ running' = running
                   /\ last'.msg = msg
                   /\ ~last'.invoked
                   /\ ~last'.result.success
                \/ \E r \in BagToSet(running') :
                      /\ running' = running (+) SetToBag({r})
                      /\ r.msg = msg
                      /\ r.targetObj = get(handles, msg.target)
                      /\ r.fn = GetProperty(get(handles, msg.target), msg.method) ]_vars

\* page.$() gave the proxy of handle_1; handle_1.$() was posted with target
\* handle_1, invoked on the element registered as handle_1, and its result
\* gave the test code the proxy of handle_2.
C21_Witness ==
    /\ \E k \in 1..Len(attempts) :
          /\ attempts[k].root = HandleId(1)
          /\ attempts[k].posted
          /\ attempts[k].msg = Msg(HandleId(1), "$", <<>>)
    /\ last.valid
    /\ last.invoked
    /\ last.msg = Msg(HandleId(1), "$", <<>>)
    /\ last.result = HostOk(HRefS(HandleId(2)))
    /\ gotResult = last
    /\ held = {HandleProxyV(HandleId(1)), HandleProxyV(HandleId(2))}
    /\ handles = (HandleId(1) :> "el") @@ (HandleId(2) :> "el2")

RECURSIVE JoinDots(_)
\* 'root.p1...pn' for <<root, p1, ..., pn>>
JoinDots(names) ==
    IF Len(names) = 0 THEN ""
    ELSE IF Len(names) = 1 THEN names[1]
    ELSE names[1] \o "." \o JoinDots(Tail(names))

Front(names) == SubSeq(names, 1, Len(names) - 1)
Names(chain) == { chain[i] : i \in 1..Len(chain) }

\* C24 as stated: every call root.p1...pn.m(args) made on the fixtures has
\* posted one Request, whose method is m and whose target is 'root.p1...pn'.
C24_Original ==
    \A k \in 1..Len(attempts) :
       attempts[k].root = "" =>
          /\ attempts[k].posted
          /\ attempts[k].msg.method = attempts[k].chain[Len(attempts[k].chain)]
          /\ attempts[k].msg.target = JoinDots(Front(attempts[k].chain))

\* C24: a call root.p1...pn.m(args) made on the fixtures, with no name in
\* the chain being 'then' and with arguments that can be cloned once their
\* functions are serialized, posts exactly one Request, whose method is m,
\* whose target is 'root.p1...pn' and whose args are the serialized
\* arguments; with a name 'then' in the chain the call raises at once and
\* with arguments that cannot be cloned it is rejected at once, and in both
\* cases no Request is posted; reading a chain without calling posts
\* nothing.
C24_ChainCallPostsOneRequest ==
    [][ /\ Len(attempts') = Len(attempts) + 1 =>
             LET a == attempts'[Len(attempts')] IN
             a.root = "" =>
                IF "then" \in Names(a.chain)
                THEN ~a.posted /\ a.error = NotCallableMsg /\ PostedMsgs' = PostedMsgs
                ELSE IF ~Cloneable(serializeArgs(a.args))
                THEN ~a.posted /\ a.error = CloneErrMsg /\ PostedMsgs' = PostedMsgs
                ELSE /\ a.posted
                     /\ a.msg.method = a.chain[Len(a.chain)]
                     /\ a.msg.target = JoinDots(Front(a.chain))
                     /\ a.msg.args = serializeArgs(a.args)
                     /\ PostedMsgs' = Append(PostedMsgs, a.msg)
        /\ lastRead' # lastRead => attempts' = attempts /\ nDispatch' = nDispatch ]_vars

\* playwright.request.newContext() was posted with target
\* 'playwright.request', page.then() posted nothing, and a chain read without
\* a call is held as a method proxy.
C24_Witness ==
    /\ \E k \in 1..Len(attempts) :
          /\ attempts[k].chain = <<"playwright", "request", "newContext">>
          /\ attempts[k].posted
          /\ attempts[k].msg = Msg("playwright.request", "newContext", <<>>)
    /\ \E k \in 1..Len(attempts) :
          /\ attempts[k].chain = <<"page", "then">>
          /\ ~attempts[k].posted
    /\ lastRead = MethodProxy("page.keyboard", "press")
    /\ Len(PostedMsgs) = 1

RECURSIVE AsReferences(_)
\* the argument list with every handle proxy as the reference to its handle
AsReferences(args) ==
    [i \in 1..Len(args) |->
        IF args[i].kind = "proxy" THEN HRefS(args[i].src)
        ELSE IF args[i].kind = "array" THEN ArrayS(AsReferences(args[i].elems))
        ELSE args[i]]

\* C26 as stated: a call whose arguments hold a handle proxy the test code
\* was given (alone or inside an array) posts a Request in which the proxy
\* travels as the reference to its handle, so that the host method gets the
\* registered object.
C26_HandleArgumentDelivered ==
    \A k \in 1..Len(attempts) :
       LET a == attempts[k] IN
       ( /\ UNION { HandleProxiesIn(a.args[i]) : i \in 1..Len(a.args) } # {}
         /\ Navigate(RootOf(a), a.chain).kind \in {"method", "handleMethod"} )
       => /\ a.posted
          /\ a.msg.args = AsReferences(serializeArgs(a.args))

\* C31 as stated: when an invoked method returns an object that is not a
\* plain object (an instance of a class, with methods on its prototype), the
\* classifier reports that it needs a handle and the result is a
\* HandleReference registered for it, whatever its own properties hold.
C31_ClassInstanceNeedsHandle ==
    [][ \A r \in BagToSet(running) :
          ( /\ Finishes(r)
            /\ Heap[r.fn].throws = ""
            /\ Heap[Heap[r.fn].ret].type = "object"
            /\ Heap[Heap[r.fn].ret].proto # <<>> )
          => /\ needsHandle(Heap[r.fn].ret) = "true"
             /\ last'.result = HostOk(HRefS(HandleId(nextId)))
             /\ handles' = (HandleId(nextId) :> Heap[r.fn].ret) @@ handles ]_vars

\* C32 as stated: a Request (not for the registry, target and method
\* present) whose target was neither a registered handle id nor a path of
\* the root context when it was dispatched has had no function source among
\* its arguments evaluated, and its Result is the target-not-found failure.
C32_TargetResolvedFirst ==
    ( /\ last.valid
      /\ last.msg # AbsentMessage
      /\ last.msg.target # RegistryTarget
      /\ ~Falsy(last.msg.target)
      /\ ~Falsy(last.msg.method)
      /\ ~last.had
      /\ ~Truthy(getNestedProperty(Context, last.msg.target)) )
    => /\ last.evaluated = 0
       /\ ~last.invoked
       /\ last.result = HostFail(NotFoundError(last.msg.target))

\* C33: a Request whose target is '__registry' is answered at once, with no
\* method invoked, no argument evaluated and the register history
\* unchanged: 'size' answers the number of entries and leaves the map and the
\* id counter unchanged, 'clear' answers success, empties the map and leaves
\* the id counter unchanged, and any other method answers a failure and
\* leaves both unchanged; no dispatch suspended at a method call is one for
\* '__registry'.
C33_RegistrySentinelDirect ==
    [][ /\ \A msg \in { m \in HostMessages \ {AbsentMessage} : m.target = RegistryTarget } :
             ( \/ Answers(msg)
               \/ /\ nDispatch' = nDispatch + 1
                  /\ \E r \in BagToSet(running') :
                        r.msg = msg /\ CopiesIn(r, running') > CopiesIn(r, running) )
             => /\ running' = running
                /\ ~last'.invoked
                /\ last'.evaluated = 0
                /\ issued' = issued
                /\ nextId' = nextId
                /\ IF msg.method = "size"
                   THEN /\ handles' = handles
                        /\ last'.result = HostOk(NumS(Cardinality(DOMAIN handles)))
                   ELSE IF msg.method = "clear"
                   THEN /\ handles' = EmptyMap
                        /\ last'.result.success
                   ELSE /\ handles' = handles
                        /\ ~last'.result.success
        /\ \A r \in BagToSet(running') : r.msg.target # RegistryTarget ]_vars

\* With one handle registered and the counter at 2, '__registry' 'clear'
\* was answered with success: the map is empty and the counter still 2.
C33_Witness ==
    /\ last.valid
    /\ last.msg = Msg(RegistryTarget, "clear", <<>>)
    /\ last.result.success
    /\ ~last.invoked
    /\ Len(issued) = 1
    /\ handles = EmptyMap
    /\ nextId = 2

C35_ToggleSharedAcrossInstances ==
    (Len(modules) >= 2 /\ Len(hooks) = 1) =>
        /\ lastToggle = "disable" => ~modules[hooks[1]]
        /\ lastToggle = "enable" => modules[hooks[1]]

\* The classifier's walk from v ends with an answer, has entered only
\* objects and arrays, and has entered none of them twice.
WalkOnce(v) ==
    LET w == needsHandleIn(v, {}) IN
    /\ w.r \in {"true", "false", "throw"}
    /\ w.r = "throw" <=> Heap[v].type = "function"
    /\ w.adds = Cardinality(w.visited)
    /\ \A o \in w.visited : Heap[o].type \in {"object", "array"}

\* C36: whenever an invoked method returns, the classifier's walk from the
\* returned value, and from every value of the host's object graph (cyclic
\* ones included), ends having entered each object at most once; an object
\* whose own properties lead to no function, even if they lead back to an
\* object already entered, is classified serializable and returned as data.
C36_ClassifierTerminates ==
    [][ \A r \in BagToSet(running) :
          (Finishes(r) /\ Heap[r.fn].throws = "") =>
          LET v == Heap[r.fn].ret IN
          /\ \A o \in DOMAIN Heap : WalkOnce(o)
          /\ last'.valid
          /\ (Heap[v].type = "object" /\ ~FunctionInside(v, {v})) =>
                /\ needsHandle(v) = "false"
                /\ last'.result = HostOk(DataS(v))
                /\ handles' = handles ]_vars

\* page.ring() returned an object of a two-object cycle: the walk entered the
\* two objects once each and the object came back as data.
C36_Witness ==
    /\ last.valid
    /\ last.invoked
    /\ last.msg = Msg("page", "ring", <<>>)
    /\ last.result = HostOk(DataS("ring"))
    /\ needsHandleIn("ring", {}).visited = {"ring", "ring2"}
    /\ needsHandleIn("ring", {}).adds = 2
    /\ needsHandleIn("page", {}).r = "true"

\* C37: with the two worker-side modules loaded in one worker, each counting
\* its Requests from 1 and both listening on 'playwright-bridge', a Response
\* settles only the call whose Request caused it: the delivery of one Response
\* never resolves a call of one module together with a call of the other.
C37_ResponseSettlesOwnCall ==
    [][ \A i \in 1..Len(calls) : \A j \in 1..Len(apiCalls) :
            ~ /\ calls[i].state = "pending"
              /\ calls'[i].state = "resolved"
              /\ apiCalls[j].state = "pending"
              /\ apiCalls'[j].state = "resolved" ]_vars

\* C38: a dispatch that returns success: false leaves the handle registry as
\* it was: in the step in which the dispatcher returns a failure, whether at
\* once or after the awaited method has settled (serialization of an array
\* result failing part-way included), no entry is added or removed and the id
\* counter is unchanged.
C38_FailureLeavesRegistry ==
    [][ ( /\ \/ \E r \in BagToSet(running) : Finishes(r)
             \/ \E msg \in HostMessages : Answers(msg)
          /\ ~last'.result.success )
        => /\ handles' = handles
           /\ nextId' = nextId ]_vars

\* C39: in every reachable state the worker holds a channel listener and an
\* armed timer only for calls that are still pending: a call that has settled
\* (resolved by a Response, rejected by its timeout, or rejected because
\* posting its Request failed) has neither its listener registered nor its
\* timer armed.
C39_ListenersOnlyForPending ==
    \A i \in 1..Len(calls) :
        calls[i].state # "pending" =>
            /\ ~calls[i].listener
            /\ calls[i].timer # "armed"

====
